---- MODULE Spec2Model ----
(***************************************************************************)
(* Model of swh.objstorage.replayer.replay: the content replayer copies    *)
(* the objects named by a batch of journal records from a source object    *)
(* storage to a destination object storage, every storage call wrapped in  *)
(* the tenacity retry policy content_replay_retry.                         *)
(***************************************************************************)
EXTENDS Integers, Sequences, FiniteSets, TLC

(* ---------------------------- bounds ----------------------------------- *)
\* number of distinct object hashes the batches draw from
NumHashes == 2
\* number of content records in a batch
NumRecords == 2
\* number of transient failures the flaky storages may inject in one batch
MaxFailures == 3
\* number of times the journal delivers a batch
MaxDeliveries == 2
\* number of distinct hashes is_hash_in_bytearray is called with
NumNeedles == 4
\* largest number of hashes in the array is_hash_in_bytearray searches
MaxHaystack == 3

(* ------------------------ program constants ---------------------------- *)
SHA1_SIZE == 20
CONTENT_REPLAY_RETRIES == 3

\* Python's None; a value v that is not None is Some(v)
None == <<>>
Some(v) == <<v>>

(* ----------------------- hashes and contents --------------------------- *)
\* the i-th object hash: SHA1_SIZE bytes
Hash(i) == [k \in 1..SHA1_SIZE |-> (i * 83 + k * 16) % 256]

Hashes == {Hash(i) : i \in 1..NumHashes}

\* the bytes of the i-th test content: i-1 zero bytes, then the byte i
Content(i) == [k \in 1..i |-> IF k = i THEN i ELSE 0]

\* content-addressing: the bytes a hash stands for
DataOf(h) == Content(CHOOSE i \in 1..NumHashes : Hash(i) = h)

HexDigit(n) ==
    CASE n = 0 -> "0" [] n = 1 -> "1" [] n = 2 -> "2" [] n = 3 -> "3"
      [] n = 4 -> "4" [] n = 5 -> "5" [] n = 6 -> "6" [] n = 7 -> "7"
      [] n = 8 -> "8" [] n = 9 -> "9" [] n = 10 -> "a" [] n = 11 -> "b"
      [] n = 12 -> "c" [] n = 13 -> "d" [] n = 14 -> "e" [] n = 15 -> "f"

RECURSIVE hash_to_hex(_)
hash_to_hex(h) ==
    IF h = <<>> THEN ""
    ELSE HexDigit(Head(h) \div 16) \o HexDigit(Head(h) % 16) \o hash_to_hex(Tail(h))

(* ------------------------------ state ---------------------------------- *)
VARIABLES
    all_objects,    \* the batch: a sequence of [object_type, objects] entries
    src,            \* source objstorage state: hash -> bytes
    dst,            \* destination objstorage state: hash -> bytes
    dst0,           \* the destination objstorage state when the batch began
    exclude_fn,     \* None, or the set of hashes the predicate excludes
    check_dst,      \* the check_dst flag
    concurrency,    \* max_workers of the thread pool
    REPORTER,       \* None, or the global error reporter
    notify,         \* None, or the imported systemd notify function
    failures_left,  \* transient failures the storages may still inject
    main,           \* the orchestrator: [pc, ti, oi]
    futures,        \* the submitted _copy_object invocations
    vol,            \* the vol list of process_replay_objects_content
    nb_skipped,
    nb_failures,
    ops_metric,     \* CONTENT_OPERATIONS_METRIC: decision -> count
    retry_metric,   \* CONTENT_RETRY_METRIC: <<operation, attempt>> -> count
    bytes_metric,   \* CONTENT_BYTES_METRIC
    reporter_db,    \* the reporter's store: key -> message
    error_log,      \* the "Failed operation" records logged at error level
    warnings,       \* number of "Received a series of" warnings
    summary,        \* None, or the "processed ..." info record
    notified,       \* number of notify("WATCHDOG=1") calls
    lookup,         \* a call of is_hash_in_bytearray: its arguments and result
    delivered,      \* the earlier deliveries of the batch: what each left
    failure_exc     \* the exception a flaky storage raises when it fails

vars == <<all_objects, src, dst, dst0, exclude_fn, check_dst, concurrency, REPORTER,
          notify, failures_left, main, futures, vol, nb_skipped, nb_failures,
          ops_metric, retry_metric, bytes_metric, reporter_db, error_log,
          warnings, summary, notified, lookup, delivered, failure_exc>>

\* what a batch never changes
config == <<all_objects, src, dst0, exclude_fn, check_dst, concurrency, REPORTER,
            notify, lookup, delivered, failure_exc>>

Operations == {"obj_in_objstorage", "get_object", "put_object"}
Decisions == {"skipped", "excluded", "in_dst", "not_in_src", "failed", "copied"}
Statuses == {"visible", "hidden"}

Records == [sha1 : Hashes, status : Statuses]

\* a store holding the objects of the hashes in S
StoreOf(S) == [h \in S |-> DataOf(h)]

\* the record kept of one invocation of a retried operation
NoCall ==
    [ attempts  |-> 0,      \* storage calls made
      sleeps    |-> 0,      \* backoff waits
      transient |-> 0,      \* storage calls that raised a transient error
      notfound  |-> 0,      \* storage calls that raised ObjNotFoundError
      reported  |-> FALSE,  \* log_replay_error ran
      how       |-> "",     \* "return" or "raise": how the invocation ended
      value     |-> None,   \* the value it returned
      exc       |-> "" ]    \* the exception it raised

\* a future wrapping one _copy_object(obj) invocation
NewFuture(obj) ==
    [ obj      |-> obj,
      pc       |-> "queued",
      op       |-> "",       \* retry_state.fn.__name__ of the running operation
      attempt  |-> 0,        \* retry_state.attempt_number of the running operation
      reason   |-> "",       \* the decision tag of the skip branch taken
      fetched  |-> None,     \* the value get_object returned
      copied   |-> None,     \* the value copy_object returned
      tmp      |-> 0,        \* the value of nb_skipped read by nb_skipped += 1
      decision |-> "",       \* the decision tag sent to statsd
      exc      |-> "",       \* the exception the invocation raised
      calls    |-> [op \in Operations |-> NoCall] ]

\* no call of is_hash_in_bytearray
NoLookup ==
    [pc |-> "idle", hash_ |-> <<>>, haystack |-> <<>>, nb_hashes |-> 0,
     result |-> None, probes |-> <<>>, last_read |-> None]

\* the locals, the metrics and the logs when process_replay_objects_content
\* is entered
Entered ==
    /\ main = [pc |-> "submit", ti |-> 1, oi |-> 1, exc |-> ""]
    /\ futures = <<>>
    /\ vol = <<>>
    /\ nb_skipped = 0
    /\ nb_failures = 0
    /\ ops_metric = [d \in Decisions |-> 0]
    /\ retry_metric = [k \in Operations \X (1..CONTENT_REPLAY_RETRIES) |-> 0]
    /\ bytes_metric = 0
    /\ reporter_db = <<>>
    /\ error_log = {}
    /\ warnings = 0
    /\ summary = None
    /\ notified = 0

\* the state when process_replay_objects_content is called: a batch with a
\* series of another object type and NumRecords content records, stores that
\* are content-addressed (a hash present in both holds the same bytes), a
\* source that lacks at most the first hash, an exclude predicate that, when
\* given, excludes the first hash
Init ==
    /\ \E objs \in [1..NumRecords -> Records] :
         all_objects = << [object_type |-> "revision", objects |-> <<objs[1]>>],
                          [object_type |-> "content", objects |-> objs] >>
    /\ \E S \in {Hashes, Hashes \ {Hash(1)}} : src = StoreOf(S)
    /\ \E S \in SUBSET Hashes : dst = StoreOf(S)
    /\ dst0 = dst
    /\ exclude_fn \in {None, Some({Hash(1)})}
    /\ check_dst \in BOOLEAN
    /\ concurrency \in {1, NumRecords}
    /\ REPORTER \in {None, Some("redis")}
    /\ notify \in {None, Some("systemd")}
    /\ failures_left = MaxFailures
    /\ Entered
    /\ lookup = NoLookup
    /\ delivered = <<>>
    /\ failure_exc = "RuntimeError"

(* --------------------------- object storages --------------------------- *)
\* what a call returned or raised
Returned(v) == [failed |-> FALSE, exc |-> "", obj_id |-> "", value |-> v]
Raised(e)   == [failed |-> TRUE,  exc |-> e,  obj_id |-> "", value |-> None]

\* objstorage.get(obj_id) on a flaky storage
StorageGet(storage, obj_id, fail) ==
    IF fail THEN Raised(failure_exc)
    ELSE IF obj_id \in DOMAIN storage THEN Returned(Some(storage[obj_id]))
    ELSE Raised("ObjNotFoundError")

\* obj_id in objstorage, on a flaky storage
StorageContains(storage, obj_id, fail) ==
    IF fail THEN Raised(failure_exc) ELSE Returned(Some(obj_id \in DOMAIN storage))

\* an add that leaves the storage with the added object alone
AddedState_DropsTheOthers(storage, obj_id, content) ==
    [h \in {obj_id} |-> content]

\* the state of the storage after add(content, obj_id, check_presence=False)
AddedState(storage, obj_id, content) ==
    [h \in DOMAIN storage \cup {obj_id} |-> IF h = obj_id THEN content ELSE storage[h]]

\* add on a flaky storage that stores the object before it raises
StorageAdd_StoresOnFailure(storage, obj_id, content, fail) ==
    [out |-> IF fail THEN Raised(failure_exc) ELSE Returned(Some(obj_id)),
     state |-> AddedState(storage, obj_id, content)]

\* objstorage.add(content, obj_id, check_presence=False) on a flaky storage
StorageAdd(storage, obj_id, content, fail) ==
    IF fail THEN [out |-> Raised(failure_exc), state |-> storage]
    ELSE [out |-> Returned(Some(obj_id)), state |-> AddedState(storage, obj_id, content)]

(* ------------------------ the retried functions ------------------------ *)
\* raise ReplayError(obj_id=obj_id, exc=exc)
ReplayError(obj_id) ==
    [failed |-> TRUE, exc |-> "ReplayError", obj_id |-> hash_to_hex(obj_id),
     value |-> None]

\* get_object without its `except ObjNotFoundError` clause: every exception
\* is wrapped
get_object_WrapsNotFound(obj_id, got) ==
    IF ~got.failed THEN Returned(got.value) ELSE ReplayError(obj_id)

\* the body of get_object, given what objstorage.get did
get_object(obj_id, got) ==
    IF ~got.failed THEN Returned(got.value)
    ELSE IF got.exc = "ObjNotFoundError" THEN Raised("ObjNotFoundError")
    ELSE ReplayError(obj_id)

\* put_object without its try block: the storage's exception is raised as is
put_object_Unwrapped(obj_id, added) ==
    IF ~added.failed THEN Returned(None) ELSE Raised(added.exc)

\* the body of put_object, given what objstorage.add did
put_object(obj_id, added) ==
    IF ~added.failed THEN Returned(None) ELSE ReplayError(obj_id)

\* obj_in_objstorage without its try block: the storage's exception is
\* raised as is
obj_in_objstorage_Unwrapped(obj_id, found) ==
    IF ~found.failed THEN Returned(found.value) ELSE Raised(found.exc)

\* the body of obj_in_objstorage, given what `obj_id in dst` did
obj_in_objstorage(obj_id, found) ==
    IF ~found.failed THEN Returned(found.value) ELSE ReplayError(obj_id)

(* --------------------------- the retry policy -------------------------- *)
\* retry_if_exception_type(ReplayError)
retry_if_exception_type(outcome) == outcome.failed /\ outcome.exc = "ReplayError"

\* retry_log_if_success without its test of retry_state.outcome.failed
retry_log_if_success_Always(outcome) == TRUE

\* retry_log_if_success.__call__: whether it increments CONTENT_RETRY_METRIC
\* (it always answers False)
retry_log_if_success(outcome) == ~outcome.failed

\* stop_after_attempt with a budget one too small
stop_after_attempt_Early(attempt_number) ==
    attempt_number >= CONTENT_REPLAY_RETRIES - 1

\* stop_after_attempt with a budget one too large
stop_after_attempt_Late(attempt_number) == attempt_number > CONTENT_REPLAY_RETRIES

\* stop_after_attempt(CONTENT_REPLAY_RETRIES)
stop_after_attempt(attempt_number) == attempt_number >= CONTENT_REPLAY_RETRIES

\* what the retrying loop does with the outcome of an attempt
content_replay_retry(outcome, attempt_number) ==
    IF ~retry_if_exception_type(outcome)
    THEN (IF outcome.failed THEN "raise" ELSE "return")
    ELSE IF stop_after_attempt(attempt_number) THEN "retry_error_callback"
    ELSE "sleep"

\* the retrying loop without retry_error_callback: once the attempts are
\* exhausted the last exception is raised again
CallEnd_Reraise(do, outcome) ==
    CASE do = "return" -> [how |-> "return", value |-> outcome.value, exc |-> ""]
      [] do = "raise" -> [how |-> "raise", value |-> None, exc |-> outcome.exc]
      [] do = "retry_error_callback" ->
           [how |-> "raise", value |-> None, exc |-> outcome.exc]
      [] do = "sleep" -> [how |-> "", value |-> None, exc |-> ""]

\* how the retried call ends for its caller: the outcome of the last attempt,
\* or, once the attempts are exhausted, the value of log_replay_error
CallEnd(do, outcome) ==
    CASE do = "return" -> [how |-> "return", value |-> outcome.value, exc |-> ""]
      [] do = "raise" -> [how |-> "raise", value |-> None, exc |-> outcome.exc]
      [] do = "retry_error_callback" -> [how |-> "return", value |-> None, exc |-> ""]
      [] do = "sleep" -> [how |-> "", value |-> None, exc |-> ""]

\* an error_context that counts the retries made, not the attempts
ErrorContext_CountsRetries(operation, outcome, attempt_number) ==
    [obj_id |-> outcome.obj_id, operation |-> operation, exc |-> failure_exc,
     retries |-> attempt_number - 1]

\* the error_context of log_replay_error
ErrorContext(operation, outcome, attempt_number) ==
    [obj_id |-> outcome.obj_id, operation |-> operation, exc |-> failure_exc,
     retries |-> attempt_number]

\* the report key without its "blob:" prefix
ReportKey_NoPrefix(obj_id_hex) == obj_id_hex

\* the key log_replay_error files a report under
ReportKey(obj_id_hex) == "blob:" \o obj_id_hex

\* a reporter that keeps the record a key already has
Reported_KeepsFirst(db, oid, msg) ==
    [k \in DOMAIN db \cup {oid} |-> IF k \in DOMAIN db THEN db[k] ELSE msg]

\* the reporter's store after REPORTER(oid, msg)
Reported(db, oid, msg) ==
    [k \in DOMAIN db \cup {oid} |-> IF k = oid THEN msg ELSE db[k]]

\* log_replay_error that logs the failure but never calls REPORTER
log_replay_error_NoReporter(operation, outcome, attempt_number) ==
    /\ error_log' = error_log \cup {ErrorContext(operation, outcome, attempt_number)}
    /\ reporter_db' = reporter_db

\* log_replay_error: the error log and the reporter after the callback
log_replay_error(operation, outcome, attempt_number) ==
    LET error_context == ErrorContext(operation, outcome, attempt_number) IN
    /\ error_log' = error_log \cup {error_context}
    /\ reporter_db' =
         IF REPORTER # None
         THEN Reported(reporter_db, ReportKey(outcome.obj_id), error_context)
         ELSE reporter_db

\* a retrying loop whose metric is tagged with the number of failed attempts
\* instead of retry_state.attempt_number
AfterAttempt_TagsFailures(operation, outcome, attempt_number) ==
    LET do == content_replay_retry(outcome, attempt_number) IN
    /\ retry_metric' =
         IF ~retry_if_exception_type(outcome) /\ retry_log_if_success(outcome)
            /\ attempt_number > 1
         THEN [retry_metric EXCEPT ![<<operation, attempt_number - 1>>] = @ + 1]
         ELSE retry_metric
    /\ IF do = "retry_error_callback"
       THEN log_replay_error(operation, outcome, attempt_number)
       ELSE UNCHANGED <<error_log, reporter_db>>

\* the effects of the retrying loop after one attempt of `operation`
AfterAttempt(operation, outcome, attempt_number) ==
    LET do == content_replay_retry(outcome, attempt_number) IN
    /\ retry_metric' =
         IF ~retry_if_exception_type(outcome) /\ retry_log_if_success(outcome)
         THEN [retry_metric EXCEPT ![<<operation, attempt_number>>] = @ + 1]
         ELSE retry_metric
    /\ IF do = "retry_error_callback"
       THEN log_replay_error(operation, outcome, attempt_number)
       ELSE UNCHANGED <<error_log, reporter_db>>

\* the record of the invocation after one more attempt: `raw` is what the
\* storage did, `outcome` what the retried function made of it
Recorded(call, slept, raw, do, outcome) ==
    LET end == CallEnd(do, outcome) IN
    [ attempts  |-> call.attempts + 1,
      sleeps    |-> IF slept THEN call.sleeps + 1 ELSE call.sleeps,
      transient |-> IF raw.failed /\ raw.exc # "ObjNotFoundError"
                    THEN call.transient + 1 ELSE call.transient,
      notfound  |-> IF raw.failed /\ raw.exc = "ObjNotFoundError"
                    THEN call.notfound + 1 ELSE call.notfound,
      reported  |-> call.reported \/ do = "retry_error_callback",
      how       |-> end.how,
      value     |-> end.value,
      exc       |-> end.exc ]

\* a retrying loop that waits before every attempt, the first included
Attempted_WaitsFirst(f, raw, do, outcome) ==
    [f EXCEPT !.calls[f.op] = Recorded(@, TRUE, raw, do, outcome),
              !.attempt = IF do = "sleep" THEN @ + 1 ELSE @,
              !.pc = IF do = "sleep" THEN "sleep" ELSE "call"]

\* the future after an attempt of its running operation: a retried attempt
\* comes after the backoff wait, and a failed one that is retried leaves the
\* future waiting
Attempted(f, raw, do, outcome) ==
    [f EXCEPT !.calls[f.op] = Recorded(@, f.pc = "sleep", raw, do, outcome),
              !.attempt = IF do = "sleep" THEN @ + 1 ELSE @,
              !.pc = IF do = "sleep" THEN "sleep" ELSE "call"]

\* the future is about to attempt `operation`, at once or after a backoff wait
AtAttempt(f, operation) == f.pc \in {"call", "sleep"} /\ f.op = operation

\* the future entering a retried operation
Calling(f, operation) == [f EXCEPT !.pc = "call", !.op = operation, !.attempt = 1]

\* the future entering one of the nb_skipped += 1 branches
Skipping(f, reason) == [f EXCEPT !.pc = "skip_read", !.reason = reason]

\* the future after _copy_object raised
Failing(f, exc) == [f EXCEPT !.pc = "done", !.exc = exc]

(* --------------------------- _copy_object ------------------------------ *)
\* an exclude_fn with a defect: it excludes the hashes of S and raises on
\* the hashes of R
Defective(S, R) == <<S, R>>

\* exclude_fn(obj) raises
ExcludeFnRaises(obj) ==
    exclude_fn # None /\ Len(exclude_fn) = 2 /\ obj.sha1 \in exclude_fn[2]

\* a pool whose workers are not freed when an invocation completes
Running_UntilShutdown(f) == f.pc # "queued"

\* the invocation occupies a worker of the pool
Running(f) == f.pc \notin {"queued", "done"}

\* _copy_object without its test of obj["status"]
Dispatch_IgnoresStatus(f) ==
    IF exclude_fn # None /\ f.obj.sha1 \in exclude_fn[1]
    THEN Skipping(f, "excluded")
    ELSE IF check_dst THEN Calling(f, "obj_in_objstorage")
    ELSE Calling(f, "get_object")

\* _copy_object testing the exclusion predicate before obj["status"]
Dispatch_ExcludeBeforeStatus(f) ==
    IF exclude_fn # None /\ f.obj.sha1 \in exclude_fn[1] THEN Skipping(f, "excluded")
    ELSE IF f.obj.status # "visible" THEN Skipping(f, "skipped")
    ELSE IF check_dst THEN Calling(f, "obj_in_objstorage")
    ELSE Calling(f, "get_object")

\* _copy_object testing the destination before the exclusion predicate
Dispatch_CheckDstBeforeExclude(f) ==
    IF f.obj.status # "visible" THEN Skipping(f, "skipped")
    ELSE IF check_dst THEN Calling(f, "obj_in_objstorage")
    ELSE IF exclude_fn # None /\ f.obj.sha1 \in exclude_fn[1]
         THEN Skipping(f, "excluded")
    ELSE Calling(f, "get_object")

\* _copy_object testing the destination whatever check_dst is
Dispatch_AlwaysChecksDst(f) ==
    IF f.obj.status # "visible" THEN Skipping(f, "skipped")
    ELSE IF exclude_fn # None /\ f.obj.sha1 \in exclude_fn[1]
         THEN Skipping(f, "excluded")
    ELSE Calling(f, "obj_in_objstorage")

\* the first branches of _copy_object: where the invocation goes before any
\* storage call
Dispatch(f) ==
    IF "status" \notin DOMAIN f.obj THEN Failing(f, "KeyError")
    ELSE IF f.obj.status # "visible" THEN Skipping(f, "skipped")
    ELSE IF ExcludeFnRaises(f.obj) THEN Failing(f, "ValueError")
    ELSE IF exclude_fn # None /\ f.obj.sha1 \in exclude_fn[1]
         THEN Skipping(f, "excluded")
    ELSE IF check_dst THEN Calling(f, "obj_in_objstorage")
    ELSE Calling(f, "get_object")

\* _copy_object ignoring the answer of obj_in_objstorage
AfterObjInObjstorage_AlwaysCopies(f, end) ==
    CASE end.how = "raise" -> Failing(f, end.exc)
      [] OTHER -> Calling(f, "get_object")

\* _copy_object skipping the object unless obj_in_objstorage answered False
AfterObjInObjstorage_SkipsUnlessAbsent(f, end) ==
    CASE end.how = "raise" -> Failing(f, end.exc)
      [] end.how = "return" /\ end.value # Some(FALSE) -> Skipping(f, "in_dst")
      [] OTHER -> Calling(f, "get_object")

\* what _copy_object does once obj_in_objstorage ended
AfterObjInObjstorage(f, end) ==
    CASE end.how = "raise" -> Failing(f, end.exc)
      [] end.how = "return" /\ end.value = Some(TRUE) -> Skipping(f, "in_dst")
      [] OTHER -> Calling(f, "get_object")

\* copy_object without its `if obj is not None` test: it stores what
\* get_object returned, an empty object when that is None
AfterGetObject_StoresAnyway(f, end) ==
    CASE end.how = "raise" /\ end.exc = "ObjNotFoundError" -> Skipping(f, "not_in_src")
      [] end.how = "raise" /\ end.exc # "ObjNotFoundError" -> Failing(f, end.exc)
      [] end.how = "return" /\ end.value # None ->
           Calling([f EXCEPT !.fetched = end.value], "put_object")
      [] OTHER -> Calling([f EXCEPT !.fetched = Some(<<>>)], "put_object")

\* what copy_object and _copy_object do once get_object ended
AfterGetObject(f, end) ==
    CASE end.how = "raise" /\ end.exc = "ObjNotFoundError" -> Skipping(f, "not_in_src")
      [] end.how = "raise" /\ end.exc # "ObjNotFoundError" -> Failing(f, end.exc)
      [] end.how = "return" /\ end.value # None ->
           Calling([f EXCEPT !.fetched = end.value], "put_object")
      [] OTHER -> [f EXCEPT !.pc = "copy_object_ret", !.copied = Some(0)]

\* what copy_object and _copy_object do once put_object ended
AfterPutObject(f, end) ==
    CASE end.how = "raise" /\ end.exc = "ObjNotFoundError" -> Skipping(f, "not_in_src")
      [] end.how = "raise" /\ end.exc # "ObjNotFoundError" -> Failing(f, end.exc)
      [] OTHER -> [f EXCEPT !.pc = "copy_object_ret", !.copied = Some(Len(f.fetched[1]))]

\* a worker thread of the pool takes the next queued invocation and runs
\* _copy_object up to its first storage call or counter update
StartCopyObject(t) ==
    /\ t \in DOMAIN futures
    /\ futures[t].pc = "queued"
    /\ \A u \in 1..(t - 1) : futures[u].pc # "queued"
    /\ Cardinality({u \in DOMAIN futures : Running(futures[u])}) < concurrency
    /\ futures' = [futures EXCEPT ![t] = Dispatch(@)]
    /\ UNCHANGED <<config, dst, failures_left, main, vol, nb_skipped, nb_failures,
                   ops_metric, retry_metric, bytes_metric, reporter_db, error_log,
                   warnings, summary, notified>>

\* one attempt of obj_in_objstorage(obj_id, dst), after the backoff wait if
\* it is a retry, and what _copy_object does with its result
ObjInObjstorage(t) ==
    /\ t \in DOMAIN futures
    /\ AtAttempt(futures[t], "obj_in_objstorage")
    /\ \E fail \in BOOLEAN :
         /\ fail => failures_left > 0
         /\ failures_left' = IF fail THEN failures_left - 1 ELSE failures_left
         /\ LET f == futures[t]
                obj_id == f.obj.sha1
                raw == StorageContains(dst, obj_id, fail)
                outcome == obj_in_objstorage(obj_id, raw)
                do == content_replay_retry(outcome, f.attempt)
                g == Attempted(f, raw, do, outcome)
            IN /\ AfterAttempt("obj_in_objstorage", outcome, f.attempt)
               /\ futures' = [futures EXCEPT ![t] =
                    IF do = "sleep" THEN g
                    ELSE AfterObjInObjstorage(g, CallEnd(do, outcome))]
    /\ UNCHANGED <<config, dst, main, vol, nb_skipped, nb_failures, ops_metric,
                   bytes_metric, warnings, summary, notified>>

\* one attempt of get_object(src, obj_id), after the backoff wait if it is a
\* retry, and what copy_object and _copy_object do with its result
GetObject(t) ==
    /\ t \in DOMAIN futures
    /\ AtAttempt(futures[t], "get_object")
    /\ \E fail \in BOOLEAN :
         /\ fail => failures_left > 0
         /\ failures_left' = IF fail THEN failures_left - 1 ELSE failures_left
         /\ LET f == futures[t]
                obj_id == f.obj.sha1
                raw == StorageGet(src, obj_id, fail)
                outcome == get_object(obj_id, raw)
                do == content_replay_retry(outcome, f.attempt)
                g == Attempted(f, raw, do, outcome)
            IN /\ AfterAttempt("get_object", outcome, f.attempt)
               /\ futures' = [futures EXCEPT ![t] =
                    IF do = "sleep" THEN g
                    ELSE AfterGetObject(g, CallEnd(do, outcome))]
    /\ UNCHANGED <<config, dst, main, vol, nb_skipped, nb_failures, ops_metric,
                   bytes_metric, warnings, summary, notified>>

\* one attempt of put_object(dst, obj_id, obj), after the backoff wait if it
\* is a retry, and what copy_object and _copy_object do with its result
PutObject(t) ==
    /\ t \in DOMAIN futures
    /\ AtAttempt(futures[t], "put_object")
    /\ \E fail \in BOOLEAN :
         /\ fail => failures_left > 0
         /\ failures_left' = IF fail THEN failures_left - 1 ELSE failures_left
         /\ LET f == futures[t]
                obj_id == f.obj.sha1
                added == StorageAdd(dst, obj_id, f.fetched[1], fail)
                outcome == put_object(obj_id, added.out)
                do == content_replay_retry(outcome, f.attempt)
                g == Attempted(f, added.out, do, outcome)
                end == CallEnd(do, outcome)
            IN /\ dst' = added.state
               /\ AfterAttempt("put_object", outcome, f.attempt)
               /\ bytes_metric' = IF end.how = "return"
                                  THEN bytes_metric + Len(f.fetched[1])
                                  ELSE bytes_metric
               /\ futures' = [futures EXCEPT ![t] =
                    IF do = "sleep" THEN g ELSE AfterPutObject(g, end)]
    /\ UNCHANGED <<config, main, vol, nb_skipped, nb_failures, ops_metric,
                   warnings, summary, notified>>

\* copy_object returned: _copy_object counts the object as failed or copied
CopyObjectReturn(t) ==
    /\ t \in DOMAIN futures
    /\ futures[t].pc = "copy_object_ret"
    /\ LET f == futures[t]
           decision == IF f.copied = None THEN "failed" ELSE "copied"
       IN /\ nb_failures' = IF f.copied = None THEN nb_failures + 1 ELSE nb_failures
          /\ vol' = IF f.copied = None THEN vol ELSE Append(vol, f.copied[1])
          /\ ops_metric' = [ops_metric EXCEPT ![decision] = @ + 1]
          /\ futures' = [futures EXCEPT ![t] =
               [@ EXCEPT !.pc = "done", !.decision = decision]]
    /\ UNCHANGED <<config, dst, failures_left, main, nb_skipped, retry_metric,
                   bytes_metric, reporter_db, error_log, warnings, summary, notified>>

\* nb_skipped += 1, first half: the thread reads the shared counter
SkipRead(t) ==
    /\ t \in DOMAIN futures
    /\ futures[t].pc = "skip_read"
    /\ futures' = [futures EXCEPT ![t] =
         [@ EXCEPT !.pc = "skip_write", !.tmp = nb_skipped]]
    /\ UNCHANGED <<config, dst, failures_left, main, vol, nb_skipped, nb_failures,
                   ops_metric, retry_metric, bytes_metric, reporter_db, error_log,
                   warnings, summary, notified>>

\* nb_skipped += 1, second half: the thread writes the counter back, then
\* sends the decision to statsd
SkipWrite(t) ==
    /\ t \in DOMAIN futures
    /\ futures[t].pc = "skip_write"
    /\ LET f == futures[t] IN
       /\ nb_skipped' = f.tmp + 1
       /\ ops_metric' = [ops_metric EXCEPT ![f.reason] = @ + 1]
       /\ futures' = [futures EXCEPT ![t] =
            [@ EXCEPT !.pc = "done", !.decision = f.reason]]
    /\ UNCHANGED <<config, dst, failures_left, main, vol, nb_failures, retry_metric,
                   bytes_metric, reporter_db, error_log, warnings, summary, notified>>

(* -------------------- process_replay_objects_content ------------------- *)
\* a loop over the objects that steps over every other one
Advance_SkipsOne(ti, oi) ==
    IF oi + 1 < Len(all_objects[ti].objects) THEN [ti |-> ti, oi |-> oi + 2]
    ELSE [ti |-> ti + 1, oi |-> 1]

\* the position after (ti, oi) in all_objects
Advance(ti, oi) ==
    IF oi < Len(all_objects[ti].objects) THEN [ti |-> ti, oi |-> oi + 1]
    ELSE [ti |-> ti + 1, oi |-> 1]

\* a loop that submits the objects of every object type
SkipObjectType_Submits ==
    /\ main.pc = "submit"
    /\ main.ti <= Len(all_objects)
    /\ all_objects[main.ti].object_type # "content"
    /\ futures' = Append(futures, NewFuture(all_objects[main.ti].objects[1]))
    /\ main' = [main EXCEPT !.ti = @ + 1, !.oi = 1]
    /\ UNCHANGED <<config, dst, failures_left, vol, nb_skipped, nb_failures,
                   ops_metric, retry_metric, bytes_metric, reporter_db, error_log,
                   warnings, summary, notified>>

\* the loop meets an object type other than content: it warns and goes on
SkipObjectType ==
    /\ main.pc = "submit"
    /\ main.ti <= Len(all_objects)
    /\ all_objects[main.ti].object_type # "content"
    /\ warnings' = warnings + 1
    /\ main' = [main EXCEPT !.ti = @ + 1, !.oi = 1]
    /\ UNCHANGED <<config, dst, failures_left, futures, vol, nb_skipped, nb_failures,
                   ops_metric, retry_metric, bytes_metric, reporter_db, error_log,
                   summary, notified>>

\* futures.append(pool.submit(_copy_object, obj=obj))
Submit ==
    /\ main.pc = "submit"
    /\ main.ti <= Len(all_objects)
    /\ all_objects[main.ti].object_type = "content"
    /\ main.oi <= Len(all_objects[main.ti].objects)
    /\ futures' = Append(futures, NewFuture(all_objects[main.ti].objects[main.oi]))
    /\ LET next == Advance(main.ti, main.oi) IN
       main' = [main EXCEPT !.ti = next.ti, !.oi = next.oi]
    /\ UNCHANGED <<config, dst, failures_left, vol, nb_skipped, nb_failures,
                   ops_metric, retry_metric, bytes_metric, reporter_db, error_log,
                   warnings, summary, notified>>

\* a pool left with shutdown(wait=False): the orchestrator goes on while
\* invocations are queued or running
Shutdown_NoWait ==
    /\ main.pc = "submit"
    /\ main.ti > Len(all_objects)
    /\ main' = [main EXCEPT !.pc = "wait"]
    /\ UNCHANGED <<config, dst, failures_left, futures, vol, nb_skipped, nb_failures,
                   ops_metric, retry_metric, bytes_metric, reporter_db, error_log,
                   warnings, summary, notified>>

\* leaving the `with ThreadPoolExecutor` block: shutdown(wait=True) returns
\* once every submitted invocation has run
Shutdown ==
    /\ main.pc = "submit"
    /\ main.ti > Len(all_objects)
    /\ \A t \in DOMAIN futures : futures[t].pc = "done"
    /\ main' = [main EXCEPT !.pc = "wait"]
    /\ UNCHANGED <<config, dst, failures_left, futures, vol, nb_skipped, nb_failures,
                   ops_metric, retry_metric, bytes_metric, reporter_db, error_log,
                   warnings, summary, notified>>

\* the futures that raised
Raisers == {t \in DOMAIN futures : futures[t].pc = "done" /\ futures[t].exc # ""}

\* the first future of the list that raised: the loop over the futures
\* raises its exception
FirstRaiser == CHOOSE t \in Raisers : \A u \in Raisers : t <= u

RECURSIVE Sum(_)
Sum(s) == IF s = <<>> THEN 0 ELSE Head(s) + Sum(Tail(s))

\* process_replay_objects_content that does not look at the futures'
\* exceptions
Finish_IgnoresExceptions ==
    /\ main.pc = "wait"
    /\ main' = [main EXCEPT !.pc = "returned"]
    /\ summary' = Some([processed |-> Len(vol), bytes |-> Sum(vol),
                        failed |-> nb_failures, skipped |-> nb_skipped])
    /\ notified' = IF notify # None THEN notified + 1 ELSE notified
    /\ UNCHANGED <<config, dst, failures_left, futures, vol, nb_skipped, nb_failures,
                   ops_metric, retry_metric, bytes_metric, reporter_db, error_log,
                   warnings>>

\* process_replay_objects_content calling notify without testing it
Finish_NotifiesUnconditionally ==
    /\ main.pc = "wait"
    /\ main' = [main EXCEPT !.pc = "returned"]
    /\ summary' = Some([processed |-> Len(vol), bytes |-> Sum(vol),
                        failed |-> nb_failures, skipped |-> nb_skipped])
    /\ notified' = notified + 1
    /\ UNCHANGED <<config, dst, failures_left, futures, vol, nb_skipped, nb_failures,
                   ops_metric, retry_metric, bytes_metric, reporter_db, error_log,
                   warnings>>

\* futures_wait, the loop over the futures, the summary and the watchdog
Finish ==
    /\ main.pc = "wait"
    /\ IF Raisers # {}
       THEN /\ main' = [main EXCEPT !.pc = "raised",
                                    !.exc = futures[FirstRaiser].exc]
            /\ UNCHANGED <<summary, notified>>
       ELSE /\ main' = [main EXCEPT !.pc = "returned"]
            /\ summary' = Some([processed |-> Len(vol), bytes |-> Sum(vol),
                           failed |-> nb_failures, skipped |-> nb_skipped])
            /\ notified' = IF notify # None THEN notified + 1 ELSE notified
    /\ UNCHANGED <<config, dst, failures_left, futures, vol, nb_skipped, nb_failures,
                   ops_metric, retry_metric, bytes_metric, reporter_db, error_log,
                   warnings>>

Next ==
    \/ SkipObjectType
    \/ Submit
    \/ Shutdown
    \/ Finish
    \/ \E t \in 1..NumRecords :
         \/ StartCopyObject(t)
         \/ ObjInObjstorage(t)
         \/ GetObject(t)
         \/ PutObject(t)
         \/ CopyObjectReturn(t)
         \/ SkipRead(t)
         \/ SkipWrite(t)

Spec == Init /\ [][Next]_vars

(* ----------------------- batches with a defect ------------------------- *)
\* the records of a batch that may lack their status field
DefectRecords == Records \cup [sha1 : Hashes]

\* the calls of process_replay_objects_content in which an invocation may
\* meet a defect: a record without status, or an exclude_fn that raises on
\* the first hash; the storages may fail once
InitDefect ==
    /\ \E objs \in [1..NumRecords -> DefectRecords] :
         all_objects = << [object_type |-> "revision", objects |-> <<objs[1]>>],
                          [object_type |-> "content", objects |-> objs] >>
    /\ src = StoreOf(Hashes)
    /\ \E S \in {{}, {Hash(1)}} : dst = StoreOf(S)
    /\ dst0 = dst
    /\ exclude_fn \in {None, Some({Hash(1)}), Defective({}, {Hash(1)})}
    /\ check_dst \in BOOLEAN
    /\ concurrency \in {1, NumRecords}
    /\ REPORTER = None
    /\ notify \in {None, Some("systemd")}
    /\ failures_left = 1
    /\ Entered
    /\ lookup = NoLookup
    /\ delivered = <<>>
    /\ failure_exc = "RuntimeError"

SpecDefect == InitDefect /\ [][Next]_vars

(* ---------------------------- scheduling ------------------------------- *)
\* the batches of Init and of InitDefect when the pool runs what is
\* submitted, a storage call returns or raises, a backoff wait ends and the
\* orchestrator is scheduled: a step that can be taken is taken
InitFair == Init \/ InitDefect

SpecFair == InitFair /\ [][Next]_vars /\ WF_vars(Next)

(* ------------------------- kinds of failure ---------------------------- *)
\* batches of visible records on storages that fail with RuntimeError or
\* with ObjNotFoundError, whatever the operation: the source raises it from
\* get, the destination from add and from the existence check
InitFailureKinds ==
    /\ \E objs \in [1..NumRecords -> [sha1 : Hashes, status : {"visible"}]] :
         all_objects = << [object_type |-> "revision", objects |-> <<objs[1]>>],
                          [object_type |-> "content", objects |-> objs] >>
    /\ \E S \in {Hashes, Hashes \ {Hash(1)}} : src = StoreOf(S)
    /\ \E S \in {{}, {Hash(1)}} : dst = StoreOf(S)
    /\ dst0 = dst
    /\ exclude_fn = None
    /\ check_dst \in BOOLEAN
    /\ concurrency \in {1, NumRecords}
    /\ REPORTER = Some("redis")
    /\ notify = None
    /\ failures_left = MaxFailures
    /\ Entered
    /\ lookup = NoLookup
    /\ delivered = <<>>
    /\ failure_exc \in {"RuntimeError", "ObjNotFoundError"}

SpecFailureKinds == InitFailureKinds /\ [][Next]_vars

(* --------------------------- redelivery -------------------------------- *)
\* a batch whose records are visible, a source that holds them, a reporter,
\* and storages that never fail or may fail often enough for an operation
\* to exhaust its attempts in each delivery
InitRedelivery ==
    /\ \E objs \in [1..NumRecords -> [sha1 : Hashes, status : {"visible"}]] :
         all_objects = << [object_type |-> "revision", objects |-> <<objs[1]>>],
                          [object_type |-> "content", objects |-> objs] >>
    /\ src = StoreOf(Hashes)
    /\ \E S \in {{}, {Hash(1)}} : dst = StoreOf(S)
    /\ dst0 = dst
    /\ exclude_fn = None
    /\ check_dst \in BOOLEAN
    /\ concurrency = 1
    /\ REPORTER = Some("redis")
    /\ notify = None
    /\ failures_left \in {0, MaxDeliveries * CONTENT_REPLAY_RETRIES}
    /\ Entered
    /\ lookup = NoLookup
    /\ delivered = <<>>
    /\ failure_exc = "RuntimeError"

\* the journal delivers the batch again: process_replay_objects_content is
\* called with the same all_objects after it returned; its locals are new,
\* the storages, the metrics, the reporter and the logs are as it left them
Redeliver ==
    /\ main.pc = "returned"
    /\ Len(delivered) < MaxDeliveries - 1
    /\ delivered' = Append(delivered, [dst |-> dst, futures |-> futures])
    /\ main' = [pc |-> "submit", ti |-> 1, oi |-> 1, exc |-> ""]
    /\ futures' = <<>>
    /\ vol' = <<>>
    /\ nb_skipped' = 0
    /\ nb_failures' = 0
    /\ summary' = None
    /\ UNCHANGED <<all_objects, src, dst0, exclude_fn, check_dst, concurrency,
                   REPORTER, notify, lookup, failure_exc, dst, failures_left, ops_metric,
                   retry_metric, bytes_metric, reporter_db, error_log, warnings,
                   notified>>

NextRedelivery == Next \/ Redeliver

SpecRedelivery == InitRedelivery /\ [][NextRedelivery]_vars

(* ------------------------ is_hash_in_bytearray ------------------------- *)
\* the i-th hash looked up: SHA1_SIZE bytes that differ in the last two, so
\* that the hashes are ordered as their numbers are
Needle(i) ==
    [k \in 1..SHA1_SIZE |->
       IF k = SHA1_SIZE THEN (i % 2) * 255
       ELSE IF k = SHA1_SIZE - 1 THEN i \div 2
       ELSE 0]

Needles == {Needle(i) : i \in 1..NumNeedles}

\* a hash one byte short
ShortNeedle == SubSeq(Needle(1), 1, SHA1_SIZE - 1)

\* a hash one byte long
LongNeedle == Needle(1) \o <<0>>

\* a < b on bytes: lexicographic, a proper prefix being smaller
RECURSIVE BytesLess(_, _)
BytesLess(a, b) ==
    IF b = <<>> THEN FALSE
    ELSE IF a = <<>> THEN TRUE
    ELSE IF Head(a) # Head(b) THEN Head(a) < Head(b)
    ELSE BytesLess(Tail(a), Tail(b))

\* the list is as sorted() leaves it
Sorted(hashes) ==
    \A i \in 1..(Len(hashes) - 1) : ~BytesLess(hashes[i + 1], hashes[i])

\* b"".join(hashes)
RECURSIVE Join(_)
Join(hashes) == IF hashes = <<>> THEN <<>> ELSE Head(hashes) \o Join(Tail(hashes))

\* the sorted lists of at most MaxHaystack hashes
Haystacks ==
    {hashes \in UNION {[1..n -> Needles] : n \in 0..MaxHaystack} : Sorted(hashes)}

\* array[lo:hi], for 0 <= lo <= hi: the slice stops at the end of the array
Slice(array, lo, hi) ==
    SubSeq(array, lo + 1, IF hi < Len(array) THEN hi ELSE Len(array))

\* get_hash(position)
get_hash(array, position, hash_size) ==
    Slice(array, position * hash_size, (position + 1) * hash_size)

\* the search without `if pivot == hash_: return True`
RECURSIVE dichotomy_NoEarlyReturn(_, _, _, _, _)
dichotomy_NoEarlyReturn(hash_, array, left, right, hash_size) ==
    IF left < right - 1
    THEN LET middle == (right + left) \div 2
             pivot == get_hash(array, middle, hash_size)
         IN IF BytesLess(pivot, hash_)
            THEN dichotomy_NoEarlyReturn(hash_, array, middle, right, hash_size)
            ELSE dichotomy_NoEarlyReturn(hash_, array, left, middle, hash_size)
    ELSE get_hash(array, left, hash_size) = hash_

\* the while loop of is_hash_in_bytearray and the return that follows it
RECURSIVE dichotomy(_, _, _, _, _)
dichotomy(hash_, array, left, right, hash_size) ==
    IF left < right - 1
    THEN LET middle == (right + left) \div 2
             pivot == get_hash(array, middle, hash_size)
         IN IF pivot = hash_ THEN TRUE
            ELSE IF BytesLess(pivot, hash_)
                 THEN dichotomy(hash_, array, middle, right, hash_size)
            ELSE dichotomy(hash_, array, left, middle, hash_size)
    ELSE get_hash(array, left, hash_size) = hash_

\* the positions the while loop calls get_hash with, in order: the middle
\* of every iteration
RECURSIVE dichotomy_probes(_, _, _, _, _)
dichotomy_probes(hash_, array, left, right, hash_size) ==
    IF left < right - 1
    THEN LET middle == (right + left) \div 2
             pivot == get_hash(array, middle, hash_size)
         IN <<middle>> \o
            (IF pivot = hash_ THEN <<>>
             ELSE IF BytesLess(pivot, hash_)
                  THEN dichotomy_probes(hash_, array, middle, right, hash_size)
             ELSE dichotomy_probes(hash_, array, left, middle, hash_size))
    ELSE <<>>

\* the position `return get_hash(left) == hash_` reads when the loop ends
\* without a match, None when the loop returned True
RECURSIVE dichotomy_left(_, _, _, _, _)
dichotomy_left(hash_, array, left, right, hash_size) ==
    IF left < right - 1
    THEN LET middle == (right + left) \div 2
             pivot == get_hash(array, middle, hash_size)
         IN IF pivot = hash_ THEN None
            ELSE IF BytesLess(pivot, hash_)
                 THEN dichotomy_left(hash_, array, middle, right, hash_size)
            ELSE dichotomy_left(hash_, array, left, middle, hash_size)
    ELSE Some(left)

\* the positions the loop of a call of is_hash_in_bytearray reads
probes_of(hash_, array, nb_hashes, hash_size) ==
    IF Len(hash_) # hash_size THEN <<>>
    ELSE dichotomy_probes(hash_, array, 0, nb_hashes, hash_size)

\* the position the call reads after its loop
last_read_of(hash_, array, nb_hashes, hash_size) ==
    IF Len(hash_) # hash_size THEN None
    ELSE dichotomy_left(hash_, array, 0, nb_hashes, hash_size)

\* is_hash_in_bytearray starting with right = nb_hashes - 1
is_hash_in_bytearray_RightInclusive(hash_, array, nb_hashes, hash_size) ==
    IF Len(hash_) # hash_size THEN Raised("ValueError")
    ELSE Returned(Some(dichotomy(hash_, array, 0, nb_hashes - 1, hash_size)))

\* is_hash_in_bytearray without the check of the length of hash_
is_hash_in_bytearray_NoLengthCheck(hash_, array, nb_hashes, hash_size) ==
    Returned(Some(dichotomy(hash_, array, 0, nb_hashes, hash_size)))

is_hash_in_bytearray(hash_, array, nb_hashes, hash_size) ==
    IF Len(hash_) # hash_size THEN Raised("ValueError")
    ELSE Returned(Some(dichotomy(hash_, array, 0, nb_hashes, hash_size)))

\* a call of is_hash_in_bytearray is about to be made, on a sorted array and
\* with a number of hashes that is or is not the array's; no batch is being
\* replayed
InitLookup ==
    /\ lookup \in [pc : {"call"}, hash_ : Needles \cup {ShortNeedle, LongNeedle},
                   haystack : Haystacks, nb_hashes : 0..MaxHaystack,
                   result : {None}, probes : {<<>>}, last_read : {None}]
    /\ all_objects = <<>>
    /\ src = StoreOf({})
    /\ dst = StoreOf({})
    /\ dst0 = dst
    /\ exclude_fn = None
    /\ check_dst = FALSE
    /\ concurrency = 1
    /\ REPORTER = None
    /\ notify = None
    /\ failures_left = 0
    /\ Entered
    /\ delivered = <<>>
    /\ failure_exc = "RuntimeError"

\* is_hash_in_bytearray(hash_, array, nb_hashes) with the default hash_size
Lookup ==
    /\ lookup.pc = "call"
    /\ lookup' = [lookup EXCEPT
         !.pc = "done",
         !.result = is_hash_in_bytearray(lookup.hash_, Join(lookup.haystack),
                                         lookup.nb_hashes, SHA1_SIZE),
         !.probes = probes_of(lookup.hash_, Join(lookup.haystack),
                              lookup.nb_hashes, SHA1_SIZE),
         !.last_read = last_read_of(lookup.hash_, Join(lookup.haystack),
                                    lookup.nb_hashes, SHA1_SIZE)]
    /\ UNCHANGED <<all_objects, src, dst, dst0, exclude_fn, check_dst, concurrency,
                   REPORTER, notify, failures_left, main, futures, vol, nb_skipped,
                   nb_failures, ops_metric, retry_metric, bytes_metric, reporter_db,
                   error_log, warnings, summary, notified, delivered, failure_exc>>

NextLookup == Lookup

SpecLookup == InitLookup /\ [][NextLookup]_vars

(* ======================================================================= *)
(*                              properties                                 *)
(* ======================================================================= *)
\* the content records of the batch
ContentRecords ==
    {all_objects[i].objects[j] :
       <<i, j>> \in {p \in (DOMAIN all_objects) \X (1..NumRecords) :
                       /\ all_objects[p[1]].object_type = "content"
                       /\ p[2] \in DOMAIN all_objects[p[1]].objects}}

Excluded(obj) == exclude_fn # None /\ obj.sha1 \in exclude_fn[1]

\* the records the replayer is to copy
Copyable(obj) == obj.status = "visible" /\ ~Excluded(obj) /\ obj.sha1 \in DOMAIN src

Call(t, op) == futures[t].calls[op]
Done(t) == futures[t].pc = "done"
ReturnedNormally == main.pc = "returned"
NoStorageFailure == failures_left = MaxFailures

\* the storage call of the invocation succeeded
StorageSucceeded(c) == c.attempts = c.transient + c.notfound + 1

\* the storage failed the invocation transiently at least the budget times
FailedBudget(c) == c.transient >= CONTENT_REPLAY_RETRIES

\* the destination holds the source's bytes for h
HoldsSourceBytes(h) == h \in DOMAIN dst /\ h \in DOMAIN src /\ dst[h] = src[h]

(* C1: with no storage failure, once the batch has returned the destination *)
(* holds exactly its initial objects plus the visible, non-excluded records *)
(* present in the source, each with the source's bytes; nothing is added    *)
(* for a hidden or an excluded record.                                      *)
C1_ReplayCopiesExactlyTheVisible ==
    (ReturnedNormally /\ NoStorageFailure) =>
       LET copied == {obj.sha1 : obj \in {o \in ContentRecords : Copyable(o)}} IN
       /\ DOMAIN dst = DOMAIN dst0 \cup copied
       /\ \A h \in DOMAIN dst0 : dst[h] = dst0[h]
       /\ \A h \in copied : dst[h] = src[h]

C1_Witness ==
    /\ ReturnedNormally /\ NoStorageFailure
    /\ \E o \in ContentRecords : Copyable(o) /\ o.sha1 \notin DOMAIN dst0
                                 /\ HoldsSourceBytes(o.sha1)
    /\ \E o \in ContentRecords : o.status = "hidden" /\ o.sha1 \in DOMAIN src
                                 /\ o.sha1 \notin DOMAIN dst

(* C2: a get that has failed transiently fewer times than the budget is     *)
(* retried (the invocation waits for its next attempt); when the storage    *)
(* then answers, get_object returns the source's bytes, and once the store  *)
(* has succeeded too the record is counted copied and the destination holds *)
(* the source's bytes.                                                      *)
C2_TransientGetIsRetriedThenCopied ==
    \A t \in DOMAIN futures :
       LET f == futures[t]
           g == f.calls["get_object"]
           p == f.calls["put_object"]
       IN /\ (g.attempts > 0 /\ g.attempts = g.transient /\ g.transient < CONTENT_REPLAY_RETRIES)
               => (f.pc = "sleep" /\ f.op = "get_object" /\ f.attempt = g.attempts + 1)
          /\ (g.transient < CONTENT_REPLAY_RETRIES /\ g.notfound = 0 /\ StorageSucceeded(g))
               => /\ g.how = "return" /\ g.value = Some(src[f.obj.sha1])
                  /\ (f.pc = "done" /\ StorageSucceeded(p))
                        => (f.decision = "copied" /\ HoldsSourceBytes(f.obj.sha1))

C2_Witness ==
    \E t \in DOMAIN futures :
       LET f == futures[t] IN
       /\ f.calls["get_object"].transient = CONTENT_REPLAY_RETRIES - 1
       /\ f.calls["get_object"].attempts = CONTENT_REPLAY_RETRIES
       /\ f.pc = "done" /\ f.decision = "copied"
       /\ f.obj.sha1 \notin DOMAIN dst0 /\ HoldsSourceBytes(f.obj.sha1)

(* C3: a record whose get failed transiently at least the budget times is   *)
(* counted failed, not copied, and the reporter holds a record for its hash *)
C3_ExhaustedGetIsCountedFailed ==
    \A t \in DOMAIN futures :
       LET f == futures[t] IN
       (f.pc = "done" /\ FailedBudget(f.calls["get_object"]))
          => /\ f.decision = "failed"
             /\ nb_failures > 0
             /\ REPORTER # None =>
                  ("blob:" \o hash_to_hex(f.obj.sha1)) \in DOMAIN reporter_db

\* the lengths of the objects the first n invocations stored in the destination
RECURSIVE StoredBytes(_)
StoredBytes(n) ==
    IF n = 0 THEN 0
    ELSE StoredBytes(n - 1)
         + (IF StorageSucceeded(Call(n, "put_object")) THEN Len(futures[n].fetched[1])
            ELSE 0)

(* C4: a record whose fetch succeeded and whose add failed transiently at   *)
(* least the budget times is counted failed: it is not counted copied and   *)
(* its length is added neither to vol nor to the bytes metric.              *)
C4_ExhaustedPutIsCountedFailed ==
    \A t \in DOMAIN futures :
       LET f == futures[t] IN
       (f.pc = "done" /\ FailedBudget(f.calls["put_object"]))
          => /\ f.decision = "failed"
             /\ f.copied = None
             /\ ReturnedNormally =>
                  (bytes_metric = StoredBytes(Len(futures)) /\ Sum(vol) = bytes_metric)

C6_NotFoundIsNotRetried ==
    \A t \in DOMAIN futures :
       LET f == futures[t]
           g == f.calls["get_object"]
       IN g.notfound >= 1 =>
            /\ g.notfound = 1
            /\ g.attempts = g.transient + 1 /\ g.sleeps = g.transient
            /\ g.how = "raise" /\ g.exc = "ObjNotFoundError"
            /\ ~g.reported
            /\ f.calls["put_object"].attempts = 0
            /\ f.pc \in {"skip_read", "skip_write", "done"}
            /\ f.reason = "not_in_src"
            /\ f.decision \in {"", "not_in_src"}
            /\ f.exc = ""
            /\ f.pc = "done" => f.decision = "not_in_src"

C6_Witness ==
    \E t \in DOMAIN futures :
       LET f == futures[t] IN
       /\ f.calls["get_object"].notfound = 1
       /\ f.calls["get_object"].attempts = 1 /\ f.calls["get_object"].sleeps = 0
       /\ f.pc = "done" /\ f.decision = "not_in_src"
       /\ REPORTER # None /\ reporter_db = <<>>

(* C7: an invocation of a retried operation makes at least one and at most  *)
(* CONTENT_REPLAY_RETRIES storage calls, and it is exhausted exactly when   *)
(* it has made that many and the last one failed with a transient error.    *)
C7_AttemptsWithinBudget ==
    \A t \in DOMAIN futures : \A op \in Operations :
       LET c == Call(t, op) IN
       /\ c.attempts <= CONTENT_REPLAY_RETRIES
       /\ futures[t].attempt <= CONTENT_REPLAY_RETRIES
       /\ c.how # "" => c.attempts >= 1
       /\ c.reported <=> (c.attempts = CONTENT_REPLAY_RETRIES /\ c.transient = c.attempts)

C7_Witness ==
    /\ \E t \in DOMAIN futures : \E op \in Operations :
         Call(t, op).reported /\ Call(t, op).attempts = CONTENT_REPLAY_RETRIES
    /\ \E t \in DOMAIN futures : \E op \in Operations :
         Call(t, op).how = "return" /\ ~Call(t, op).reported /\ Call(t, op).attempts = 1

(* C8: whatever the storages raise, no _copy_object invocation raises and   *)
(* process_replay_objects_content does not raise: it can always go on until *)
(* it returns, and when it returns every content record of the batch has    *)
(* been through _copy_object and was given a decision.                      *)
C8_StorageFailuresNeverEscape ==
    /\ main.pc # "raised"
    /\ \A t \in DOMAIN futures : futures[t].exc = ""
    /\ main.pc # "returned" => ENABLED Next
    /\ ReturnedNormally =>
         /\ Len(futures) = NumRecords
         /\ \A t \in DOMAIN futures :
              Done(t) /\ futures[t].decision \in Decisions
                      /\ futures[t].obj = all_objects[2].objects[t]

C8_Witness ==
    /\ ReturnedNormally
    /\ failures_left = 0
    /\ \E t \in DOMAIN futures : Call(t, "put_object").reported
    /\ \E t \in DOMAIN futures : Call(t, "get_object").notfound = 1

\* the hashes on which an operation among ops failed at least the budget times
ExhaustedHashes(ops) ==
    {futures[t].obj.sha1 :
       t \in {u \in DOMAIN futures : \E op \in ops : FailedBudget(Call(u, op))}}

(* C9 as claimed: with a reporter, after a batch the reporter's keys are    *)
(* the "blob:" keys of the hashes on which a fetch or a store failed at     *)
(* least the budget times.                                                  *)
C9_ReportsOnlyFetchAndStore ==
    (ReturnedNormally /\ REPORTER # None) =>
       DOMAIN reporter_db =
         {"blob:" \o hash_to_hex(h) : h \in ExhaustedHashes({"get_object", "put_object"})}

(* C9 as amended: with a reporter, after a batch the reporter's keys are    *)
(* the "blob:" keys of the hashes on which a fetch, a store or an existence *)
(* check failed at least the budget times.                                  *)
C9_ReportsEveryExhaustedOperation ==
    (ReturnedNormally /\ REPORTER # None) =>
       DOMAIN reporter_db = {"blob:" \o hash_to_hex(h) : h \in ExhaustedHashes(Operations)}

C9_Witness ==
    /\ ReturnedNormally /\ REPORTER # None
    /\ DOMAIN reporter_db = {"blob:63738393a3b3c3d3e3f303132333435363738393"}
    /\ \E t \in DOMAIN futures :
         /\ futures[t].obj.sha1 = Hash(1)
         /\ FailedBudget(Call(t, "put_object"))
    /\ \E t \in DOMAIN futures :
         /\ futures[t].obj.sha1 # Hash(1)
         /\ futures[t].decision = "copied"
         /\ StorageSucceeded(Call(t, "put_object"))

(* C10: with a reporter, when the batch returns every visible, non-excluded *)
(* record present in the source is in the destination with the source's     *)
(* bytes, or the reporter holds a record under its hash.                    *)
C10_NoFailedObjectIsLost ==
    (ReturnedNormally /\ REPORTER # None) =>
       \A obj \in ContentRecords :
          Copyable(obj) =>
             \/ HoldsSourceBytes(obj.sha1)
             \/ ("blob:" \o hash_to_hex(obj.sha1)) \in DOMAIN reporter_db

C10_Witness ==
    /\ ReturnedNormally /\ REPORTER # None
    /\ \E obj \in ContentRecords :
         /\ Copyable(obj)
         /\ obj.sha1 \notin DOMAIN dst
         /\ ("blob:" \o hash_to_hex(obj.sha1)) \in DOMAIN reporter_db
    /\ \E obj \in ContentRecords :
         Copyable(obj) /\ obj.sha1 \notin DOMAIN dst0 /\ HoldsSourceBytes(obj.sha1)

\* the invocations of the batch on the hash h
InvocationsOn(h) == {t \in DOMAIN futures : futures[t].obj.sha1 = h}

\* the invocation made no storage call at all
NoStorageCall(t) == \A op \in Operations : Call(t, op).attempts = 0

(* C11: a hash is in the destination only if it was there when the batch    *)
(* began or an add call for it succeeded; an invocation whose fetch or      *)
(* store failed at least the budget times added nothing; and when the batch *)
(* returns, every record to copy whose fetch and store did not exhaust      *)
(* their attempts is in the destination with the source's bytes.            *)
C11_ExhaustedObjectStaysAbsent ==
    /\ \A h \in DOMAIN dst :
         \/ h \in DOMAIN dst0
         \/ \E t \in InvocationsOn(h) : StorageSucceeded(Call(t, "put_object"))
    /\ \A t \in DOMAIN futures :
         /\ FailedBudget(Call(t, "get_object")) => Call(t, "put_object").attempts = 0
         /\ FailedBudget(Call(t, "put_object"))
              => ~StorageSucceeded(Call(t, "put_object"))
    /\ ReturnedNormally =>
         \A t \in DOMAIN futures :
            (/\ Copyable(futures[t].obj)
             /\ ~FailedBudget(Call(t, "get_object"))
             /\ ~FailedBudget(Call(t, "put_object")))
               => HoldsSourceBytes(futures[t].obj.sha1)

C11_Witness ==
    /\ ReturnedNormally
    /\ \E t \in DOMAIN futures :
         /\ FailedBudget(Call(t, "put_object"))
         /\ futures[t].obj.sha1 \notin DOMAIN dst
    /\ \E t \in DOMAIN futures :
         /\ StorageSucceeded(Call(t, "put_object"))
         /\ futures[t].obj.sha1 \notin DOMAIN dst0
         /\ HoldsSourceBytes(futures[t].obj.sha1)

(* C12: an invocation on a record whose status is not visible takes the     *)
(* skipped branch whatever exclude_fn and check_dst are: its decision is    *)
(* skipped and it makes no storage call.                                    *)
C12_InvisibleIsSkippedWithoutIO ==
    \A t \in DOMAIN futures :
       LET f == futures[t] IN
       (f.obj.status # "visible" /\ f.pc # "queued") =>
          /\ f.pc \in {"skip_read", "skip_write", "done"}
          /\ f.reason = "skipped"
          /\ NoStorageCall(t)
          /\ f.pc = "done" => f.decision = "skipped"

C12_Witness ==
    \E t \in DOMAIN futures :
       LET f == futures[t] IN
       /\ f.obj.status = "hidden" /\ Excluded(f.obj) /\ check_dst
       /\ f.obj.sha1 \in DOMAIN dst0
       /\ f.pc = "done" /\ f.decision = "skipped"

(* C13: an invocation on a visible record that exclude_fn excludes takes    *)
(* the excluded branch: its decision is excluded, it makes no storage call, *)
(* and an excluded hash is in the destination only if it was there when the *)
(* batch began.                                                             *)
C13_ExcludedIsSkippedWithoutIO ==
    \A t \in DOMAIN futures :
       LET f == futures[t] IN
       (f.obj.status = "visible" /\ Excluded(f.obj) /\ f.pc # "queued") =>
          /\ f.pc \in {"skip_read", "skip_write", "done"}
          /\ f.reason = "excluded"
          /\ NoStorageCall(t)
          /\ f.pc = "done" => f.decision = "excluded"
          /\ f.obj.sha1 \in DOMAIN dst <=> f.obj.sha1 \in DOMAIN dst0

C13_Witness ==
    \E t \in DOMAIN futures :
       LET f == futures[t] IN
       /\ f.obj.status = "visible" /\ Excluded(f.obj) /\ check_dst
       /\ f.obj.sha1 \in DOMAIN src /\ f.obj.sha1 \notin DOMAIN dst
       /\ f.pc = "done" /\ f.decision = "excluded"

(* C14: with check_dst, an invocation on a visible, non-excluded record     *)
(* whose existence check answered that the destination contains the hash    *)
(* (as it does for a hash the destination held when the batch began) takes  *)
(* the in_dst branch and makes neither a get nor an add; with no storage    *)
(* failure, a record to copy whose hash the destination lacked is copied by *)
(* the batch (a later record of the same hash may find it in_dst).          *)
C14_PresentInDstIsNotCopied ==
    check_dst =>
       /\ \A t \in DOMAIN futures :
            LET f == futures[t]
                c == Call(t, "obj_in_objstorage")
            IN /\ (StorageSucceeded(c) /\ f.obj.sha1 \in DOMAIN dst0)
                    => c.value = Some(TRUE)
               /\ (c.how = "return" /\ c.value = Some(TRUE)) =>
                    /\ f.reason = "in_dst"
                    /\ Call(t, "get_object").attempts = 0
                    /\ Call(t, "put_object").attempts = 0
                    /\ f.pc = "done" => f.decision = "in_dst"
       /\ (ReturnedNormally /\ NoStorageFailure) =>
            \A obj \in ContentRecords :
               (Copyable(obj) /\ obj.sha1 \notin DOMAIN dst0) =>
                  /\ \E t \in InvocationsOn(obj.sha1) : futures[t].decision = "copied"
                  /\ \A t \in InvocationsOn(obj.sha1) :
                        futures[t].obj.status = "visible"
                           => futures[t].decision \in {"copied", "in_dst"}
                  /\ HoldsSourceBytes(obj.sha1)

C14_Witness ==
    /\ check_dst /\ ReturnedNormally /\ NoStorageFailure
    /\ \E t \in DOMAIN futures :
         /\ futures[t].obj.sha1 \in DOMAIN dst0
         /\ futures[t].decision = "in_dst"
         /\ Call(t, "get_object").attempts = 0
    /\ \E t \in DOMAIN futures :
         /\ futures[t].obj.sha1 \notin DOMAIN dst0
         /\ futures[t].decision = "copied"

(* C15: without check_dst no invocation calls obj_in_objstorage and none    *)
(* takes the in_dst branch; a record to copy that the destination already   *)
(* holds is fetched and stored again and its decision is copied, unless its *)
(* fetch or its store exhausted their attempts.                             *)
C15_NoCheckDstCopiesAgain ==
    ~check_dst =>
       \A t \in DOMAIN futures :
          LET f == futures[t] IN
          /\ Call(t, "obj_in_objstorage").attempts = 0
          /\ f.reason # "in_dst" /\ f.decision # "in_dst"
          /\ (/\ f.pc = "done" /\ Copyable(f.obj) /\ f.obj.sha1 \in DOMAIN dst0
              /\ ~FailedBudget(Call(t, "get_object"))
              /\ ~FailedBudget(Call(t, "put_object")))
               => /\ StorageSucceeded(Call(t, "get_object"))
                  /\ StorageSucceeded(Call(t, "put_object"))
                  /\ f.decision = "copied"
                  /\ f.copied = Some(Len(src[f.obj.sha1]))

C15_Witness ==
    /\ ~check_dst
    /\ \E t \in DOMAIN futures :
         /\ futures[t].obj.sha1 \in DOMAIN dst0
         /\ futures[t].pc = "done" /\ futures[t].decision = "copied"
         /\ StorageSucceeded(Call(t, "put_object"))
         /\ Call(t, "obj_in_objstorage").attempts = 0

(* C16: when a batch completes normally, the copied count, the skipped      *)
(* count and the failed count of the summary add up to the number of        *)
(* content records of the batch.                                            *)
C16_CountsSumToBatchSize ==
    ReturnedNormally =>
       summary[1].processed + summary[1].skipped + summary[1].failed = Len(futures)

\* the invocations that sent the decision tag d
Decided(d) == {t \in DOMAIN futures : futures[t].decision = d}

(* C17: the content records are submitted once each, in order; at most      *)
(* `concurrency` invocations run at a time; an invocation sends one         *)
(* decision tag, when it completes, so that each tag's count is the number  *)
(* of invocations that ended with it; and when the batch returns every      *)
(* content record has been through _copy_object and has one decision.       *)
C17_EachRecordDecidedOnce ==
    /\ Len(futures) <= NumRecords
    /\ \A t \in DOMAIN futures : futures[t].obj = all_objects[2].objects[t]
    /\ Cardinality({t \in DOMAIN futures : Running(futures[t])}) <= concurrency
    /\ \A t \in DOMAIN futures :
         futures[t].decision # "" <=> (Done(t) /\ futures[t].exc = "")
    /\ \A d \in Decisions : ops_metric[d] = Cardinality(Decided(d))
    /\ ReturnedNormally =>
         /\ Len(futures) = NumRecords
         /\ \A t \in DOMAIN futures : futures[t].decision \in Decisions

C17_Witness ==
    /\ ReturnedNormally
    /\ concurrency < NumRecords
    /\ Decided("copied") # {}
    /\ Decided("skipped") # {}
    /\ Len(futures) = NumRecords

(* C18: when an invocation raised on a defect (a record without status, an  *)
(* exclude_fn that raises), process_replay_objects_content does not return: *)
(* it goes on until it raises, the exception is that of an invocation (the  *)
(* first of the list that raised), and neither the summary is logged nor    *)
(* notify called.                                                           *)
C18_DefectIsRaisedToTheCaller ==
    /\ Raisers # {} =>
         /\ main.pc # "returned"
         /\ summary = None /\ notified = 0
         /\ main.pc # "raised" => ENABLED Next
    /\ main.pc = "raised" =>
         /\ Raisers # {}
         /\ main.exc = futures[FirstRaiser].exc
         /\ main.exc \in {"KeyError", "ValueError"}
    /\ main.pc # "raised" => main.exc = ""

C18_Witness ==
    /\ main.pc = "raised" /\ main.exc = "KeyError"
    /\ notify # None /\ summary = None /\ notified = 0
    /\ \E t \in DOMAIN futures : futures[t].decision = "copied"
    /\ \E t \in DOMAIN futures :
         futures[t].exc = "KeyError" /\ "status" \notin DOMAIN futures[t].obj

(* C19: when process_replay_objects_content returns or raises, every        *)
(* content record of the batch was submitted and every submitted invocation *)
(* has completed, by a decision or by an exception: none is queued or       *)
(* running; and it returns only when no invocation raised.                  *)
C19_EveryOutcomeIsObserved ==
    /\ main.pc \in {"wait", "returned", "raised"} =>
         /\ Len(futures) = NumRecords
         /\ \A t \in DOMAIN futures :
              /\ Done(t)
              /\ futures[t].decision # "" \/ futures[t].exc # ""
    /\ ReturnedNormally =>
         /\ Raisers = {}
         /\ summary # None
         /\ summary[1].processed = Cardinality(Decided("copied"))

C19_Witness ==
    /\ main.pc = "raised"
    /\ concurrency = NumRecords
    /\ Raisers = {1}
    /\ \E t \in DOMAIN futures :
         /\ t > 1 /\ Done(t) /\ futures[t].decision = "copied"
         /\ Call(t, "get_object").transient = 1

(* C20: called with a hash of hash_size bytes and the concatenation of a    *)
(* sorted list of hashes (empty, of one element, or longer),                *)
(* is_hash_in_bytearray returns True if the hash is an element of the list  *)
(* and False if it is not.                                                  *)
C20_FoundIffElement ==
    (lookup.pc = "done" /\ Len(lookup.hash_) = SHA1_SIZE
       /\ lookup.nb_hashes = Len(lookup.haystack)) =>
       lookup.result =
          Returned(Some(lookup.hash_ \in
                          {lookup.haystack[i] : i \in DOMAIN lookup.haystack}))

C20_Witness ==
    /\ lookup.pc = "done"
    /\ Len(lookup.haystack) = MaxHaystack
    /\ lookup.nb_hashes = MaxHaystack
    /\ lookup.haystack[1] # lookup.haystack[2]
    /\ lookup.hash_ = lookup.haystack[MaxHaystack]
    /\ lookup.hash_ # lookup.haystack[2]
    /\ lookup.result.value = Some(TRUE)

\* the invocations of op whose storage call succeeded at attempt number a
SucceededAt(op, a) ==
    {t \in DOMAIN futures : StorageSucceeded(Call(t, op)) /\ Call(t, op).attempts = a}

(* C21 as claimed: the retry metric is incremented only by an attempt that  *)
(* succeeds after a failed attempt of the same invocation: never with the   *)
(* attempt number 1.                                                        *)
C21_MetricOnlyAfterAFailure ==
    \A op \in Operations : \A a \in 1..CONTENT_REPLAY_RETRIES :
       retry_metric[<<op, a>>] =
          IF a = 1 THEN 0 ELSE Cardinality(SucceededAt(op, a))

(* C21 as amended: the retry metric is incremented by every attempt that    *)
(* succeeds, the first included, under the operation and the attempt        *)
(* number; an attempt that fails, transiently or with not-found, and so an  *)
(* operation that never succeeds, does not increment it.                    *)
C21_MetricOnEverySuccess ==
    \A op \in Operations : \A a \in 1..CONTENT_REPLAY_RETRIES :
       retry_metric[<<op, a>>] = Cardinality(SucceededAt(op, a))

C21_Witness ==
    /\ ReturnedNormally
    /\ retry_metric[<<"get_object", 1>>] = 1
    /\ \E t \in DOMAIN futures : Call(t, "get_object").notfound = 1
    /\ \E t \in DOMAIN futures : Call(t, "put_object").reported
    /\ \A a \in 1..CONTENT_REPLAY_RETRIES : retry_metric[<<"put_object", a>>] = 0

(* C22: an invocation whose fetch did not fail and whose add failed         *)
(* transiently CONTENT_REPLAY_RETRIES - 1 times and then succeeded ends as  *)
(* copied with the object in the destination; it called the source's get    *)
(* once; and its put_object incremented the retry metric once, under the    *)
(* attempt number CONTENT_REPLAY_RETRIES (when no other invocation stored   *)
(* anything, that is the only increment for put_object).                    *)
C22_AddSucceedsAtLastAttempt ==
    \A t \in DOMAIN futures :
       LET f == futures[t]
           p == Call(t, "put_object")
       IN (/\ p.transient = CONTENT_REPLAY_RETRIES - 1 /\ StorageSucceeded(p)
           /\ Call(t, "get_object").transient = 0)
            => /\ p.attempts = CONTENT_REPLAY_RETRIES
               /\ p.how = "return" /\ ~p.reported
               /\ Call(t, "get_object").attempts = 1
               /\ HoldsSourceBytes(f.obj.sha1)
               /\ f.copied = Some(Len(src[f.obj.sha1]))
               /\ f.pc = "done" => f.decision = "copied"
               /\ retry_metric[<<"put_object", CONTENT_REPLAY_RETRIES>>] >= 1
               /\ (\A u \in DOMAIN futures \ {t} : Call(u, "put_object").attempts = 0)
                    => \A a \in 1..CONTENT_REPLAY_RETRIES :
                          retry_metric[<<"put_object", a>>] =
                             IF a = CONTENT_REPLAY_RETRIES THEN 1 ELSE 0

C22_Witness ==
    /\ ReturnedNormally
    /\ \E t \in DOMAIN futures :
         /\ Call(t, "put_object").transient = CONTENT_REPLAY_RETRIES - 1
         /\ StorageSucceeded(Call(t, "put_object"))
         /\ Call(t, "get_object").attempts = 1
         /\ futures[t].decision = "copied"
         /\ futures[t].obj.sha1 \notin DOMAIN dst0
         /\ \A u \in DOMAIN futures \ {t} : Call(u, "put_object").attempts = 0
    /\ retry_metric[<<"put_object", CONTENT_REPLAY_RETRIES>>] = 1

(* C24: the summary of a batch that completes normally reports the number   *)
(* of content records of the batch.                                         *)
C24_SummaryReportsTheTotal ==
    ReturnedNormally => summary[1].processed = Len(futures)

\* the number of decision tags sent to statsd
OpsTotal ==
    ops_metric["skipped"] + ops_metric["excluded"] + ops_metric["in_dst"]
    + ops_metric["not_in_src"] + ops_metric["failed"] + ops_metric["copied"]

\* the object types of all_objects the submit loop has gone past that are
\* not content
PassedOtherTypes ==
    {i \in DOMAIN all_objects : i < main.ti /\ all_objects[i].object_type # "content"}

(* C25: a series of another object type is only warned about: while the     *)
(* loop has met nothing but such series nothing was submitted, stored or    *)
(* counted; the invocations are those of the content records alone, one     *)
(* decision each, and the batch does not raise.                             *)
C25_OnlyContentIsProcessed ==
    /\ warnings = Cardinality(PassedOtherTypes)
    /\ (main.oi = 1 /\ \A i \in DOMAIN all_objects : i < main.ti => i \in PassedOtherTypes) =>
         /\ futures = <<>> /\ dst = dst0 /\ vol = <<>>
         /\ nb_skipped = 0 /\ nb_failures = 0 /\ OpsTotal = 0 /\ bytes_metric = 0
         /\ failures_left = MaxFailures
    /\ \E i \in DOMAIN all_objects :
         /\ all_objects[i].object_type = "content"
         /\ Len(futures) <= Len(all_objects[i].objects)
         /\ \A t \in DOMAIN futures : futures[t].obj = all_objects[i].objects[t]
    /\ OpsTotal <= NumRecords
    /\ main.pc # "raised"
    /\ ReturnedNormally => (OpsTotal = NumRecords /\ Len(futures) = NumRecords)

C25_Witness ==
    /\ ReturnedNormally
    /\ warnings = 1
    /\ all_objects[1].object_type = "revision"
    /\ Copyable(all_objects[1].objects[1])
    /\ OpsTotal = NumRecords
    /\ Cardinality(Decided("copied")) = NumRecords

(* C26: notify is called once, when the batch returns, after every          *)
(* invocation has completed and with the summary logged; it is not called   *)
(* before, nor when notify is None, in which case the function returns all  *)
(* the same.                                                                *)
C26_NotifiedOnceAfterTheSummary ==
    /\ notified = IF ReturnedNormally /\ notify # None THEN 1 ELSE 0
    /\ summary # None <=> ReturnedNormally
    /\ ReturnedNormally =>
         /\ Len(futures) = NumRecords
         /\ \A t \in DOMAIN futures : Done(t)
         /\ summary[1].processed = Len(vol)
    /\ main.pc = "wait" => ENABLED Finish

C26_Witness ==
    /\ ReturnedNormally
    /\ notify # None /\ notified = 1
    /\ summary # None /\ summary[1].processed = 1 /\ summary[1].skipped = 1

(* C28: an existence check that failed transiently fewer times than the     *)
(* budget is retried after a wait, and once the destination answers its     *)
(* boolean is what obj_in_objstorage returns: True for a hash the           *)
(* destination held when the batch began, and then the record is in_dst     *)
(* with no get and no add; the invocation reports nothing, it does not      *)
(* raise, and the reporter holds nothing for a hash no operation exhausted  *)
(* its attempts on.                                                         *)
C28_TransientCheckIsRetried ==
    \A t \in DOMAIN futures :
       LET f == futures[t]
           c == Call(t, "obj_in_objstorage")
       IN /\ (c.attempts > 0 /\ c.attempts = c.transient
                /\ c.transient < CONTENT_REPLAY_RETRIES)
               => (f.pc = "sleep" /\ f.op = "obj_in_objstorage")
          /\ (c.transient < CONTENT_REPLAY_RETRIES /\ StorageSucceeded(c)) =>
               /\ c.attempts = c.transient + 1 /\ c.sleeps = c.transient
               /\ c.how = "return" /\ ~c.reported
               /\ c.value \in {Some(TRUE), Some(FALSE)}
               /\ f.obj.sha1 \in DOMAIN dst0 => c.value = Some(TRUE)
               /\ c.value = Some(FALSE) => Call(t, "get_object").attempts > 0
                                           \/ AtAttempt(f, "get_object")
               /\ c.value = Some(TRUE) =>
                    /\ f.reason = "in_dst"
                    /\ Call(t, "get_object").attempts = 0
                    /\ Call(t, "put_object").attempts = 0
                    /\ f.pc = "done" => f.decision = "in_dst"
                    /\ \A op \in Operations : ~Call(t, op).reported
               /\ f.exc = ""
               /\ (\A u \in InvocationsOn(f.obj.sha1) : \A op \in Operations :
                      ~Call(u, op).reported)
                    => ReportKey(hash_to_hex(f.obj.sha1)) \notin DOMAIN reporter_db

C28_Witness ==
    /\ ReturnedNormally
    /\ REPORTER # None /\ reporter_db = <<>>
    /\ \E t \in DOMAIN futures :
         /\ Call(t, "obj_in_objstorage").transient = CONTENT_REPLAY_RETRIES - 1
         /\ Call(t, "obj_in_objstorage").attempts = CONTENT_REPLAY_RETRIES
         /\ futures[t].obj.sha1 \in DOMAIN dst0
         /\ futures[t].decision = "in_dst"

(* C30: called with a hash whose length is not hash_size,                   *)
(* is_hash_in_bytearray raises ValueError and returns no boolean, whatever  *)
(* the array and nb_hashes are; it raises for no other hash.                *)
C30_WrongLengthRaises ==
    lookup.pc = "done" =>
       /\ Len(lookup.hash_) # SHA1_SIZE =>
            /\ lookup.result = Raised("ValueError")
            /\ lookup.result.value = None
       /\ Len(lookup.hash_) = SHA1_SIZE =>
            /\ ~lookup.result.failed
            /\ lookup.result.value \in {Some(TRUE), Some(FALSE)}

C30_Witness ==
    /\ lookup.pc = "done"
    /\ lookup.hash_ = ShortNeedle
    /\ Len(lookup.haystack) = MaxHaystack
    /\ lookup.nb_hashes = 1
    /\ lookup.haystack[1] = Needle(1)
    /\ lookup.result.exc = "ValueError"

\* no storage call of the invocations fs raised a transient error
NoFailureIn(fs) ==
    \A t \in DOMAIN fs : \A op \in Operations : fs[t].calls[op].transient = 0

\* the hashes the invocations fs copied
CopiedIn(fs) ==
    {fs[t].obj.sha1 : t \in {u \in DOMAIN fs : fs[u].decision = "copied"}}

(* C23: with no storage failure, a second delivery of the batch leaves the  *)
(* destination as the first delivery left it, check_dst on or off; with     *)
(* check_dst on it makes no source get and no destination add for a hash    *)
(* the first delivery copied and decides in_dst for it, with check_dst off  *)
(* it copies again what the first delivery copied.                          *)
C23_RedeliveryIsIdempotent ==
    (/\ delivered # <<>>
     /\ NoFailureIn(futures)
     /\ \A d \in DOMAIN delivered : NoFailureIn(delivered[d].futures)) =>
       LET first == delivered[Len(delivered)] IN
       /\ dst = first.dst
       /\ \A t \in DOMAIN futures :
            futures[t].obj.sha1 \in CopiedIn(first.futures) =>
               IF check_dst
               THEN /\ Call(t, "get_object").attempts = 0
                    /\ Call(t, "put_object").attempts = 0
                    /\ Done(t) => futures[t].decision = "in_dst"
               ELSE Done(t) => futures[t].decision = "copied"
       /\ main.pc # "raised"

C23_Witness ==
    /\ ReturnedNormally
    /\ Len(delivered) = 1
    /\ check_dst
    /\ failures_left = 0
    /\ dst0 = StoreOf({})
    /\ Cardinality(CopiedIn(delivered[1].futures)) = NumRecords
    /\ \A t \in DOMAIN futures : futures[t].decision = "in_dst"
    /\ dst = delivered[1].dst
    /\ DOMAIN dst = Hashes

\* the invocations among fs on hash h in which log_replay_error ran
ReportedOn(fs, h) ==
    {t \in DOMAIN fs : fs[t].obj.sha1 = h
                        /\ \E op \in Operations : fs[t].calls[op].reported}

\* the operation of the last call of log_replay_error in invocation f:
\* _copy_object calls obj_in_objstorage, then get_object, then put_object
LastReportedOp(f) ==
    IF f.calls["put_object"].reported THEN "put_object"
    ELSE IF f.calls["get_object"].reported THEN "get_object"
    ELSE "obj_in_objstorage"

\* the operations whose report may be the last made on hash h: those of the
\* current delivery if it made one, else those of the latest delivery that did
RECURSIVE LastReportsBefore(_, _)
LastReportsBefore(d, h) ==
    IF d = 0 THEN {}
    ELSE LET fs == delivered[d].futures IN
         IF ReportedOn(fs, h) # {}
         THEN {LastReportedOp(fs[t]) : t \in ReportedOn(fs, h)}
         ELSE LastReportsBefore(d - 1, h)

LastReports(h) ==
    IF ReportedOn(futures, h) # {}
    THEN {LastReportedOp(futures[t]) : t \in ReportedOn(futures, h)}
    ELSE LastReportsBefore(Len(delivered), h)

(* C27: over the deliveries of a batch the reporter holds one record per    *)
(* hash on which an operation exhausted its attempts, under the key of the  *)
(* hash, and none for another hash; the record is that of the last such     *)
(* failure on the hash: a later one, of another operation of the same       *)
(* invocation or of a later delivery, replaces the earlier one.             *)
C27_OneReportPerHash ==
    /\ DOMAIN reporter_db =
         {ReportKey(hash_to_hex(h)) : h \in {g \in Hashes : LastReports(g) # {}}}
    /\ Cardinality(DOMAIN reporter_db) <= NumHashes
    /\ \A h \in Hashes :
         LastReports(h) # {} =>
            LET report == reporter_db[ReportKey(hash_to_hex(h))] IN
            /\ report.obj_id = hash_to_hex(h)
            /\ report.operation \in LastReports(h)
            /\ report.retries = CONTENT_REPLAY_RETRIES

C27_Witness ==
    /\ ReturnedNormally
    /\ Len(delivered) = 1
    /\ \E h \in Hashes :
         /\ \E t \in ReportedOn(delivered[1].futures, h) :
              LastReportedOp(delivered[1].futures[t]) = "get_object"
         /\ \E t \in ReportedOn(futures, h) :
              LastReportedOp(futures[t]) = "put_object"
         /\ LastReports(h) = {"put_object"}
         /\ reporter_db[ReportKey(hash_to_hex(h))].operation = "put_object"
    /\ Cardinality(DOMAIN reporter_db) = 1

\* process_replay_objects_content has returned or raised
Terminated == main.pc \in {"returned", "raised"}

\* an invocation makes at most CONTENT_REPLAY_RETRIES attempts of each of its
\* operations, with fewer waits than attempts
AttemptsBounded ==
    \A t \in DOMAIN futures : \A op \in Operations :
       /\ Call(t, op).attempts <= CONTENT_REPLAY_RETRIES
       /\ Call(t, op).sleeps <= CONTENT_REPLAY_RETRIES - 1
       /\ Call(t, op).sleeps <= Call(t, op).attempts

(* C29: every batch terminates: whatever the records and the failures of    *)
(* the storages, process_replay_objects_content eventually returns or       *)
(* raises, provided the steps that can be taken are taken; each invocation  *)
(* makes at most CONTENT_REPLAY_RETRIES attempts of each of its three       *)
(* operations.                                                              *)
C29_EveryBatchTerminates == []AttemptsBounded /\ <>Terminated

C29_Witness ==
    /\ Terminated
    /\ failures_left = 0
    /\ \E t \in DOMAIN futures :
         /\ Call(t, "get_object").attempts = CONTENT_REPLAY_RETRIES
         /\ Call(t, "get_object").sleeps = CONTENT_REPLAY_RETRIES - 1
         /\ Call(t, "get_object").reported

\* the invocation t is in the backoff wait of operation op
Waiting(t, op) == futures[t].pc = "sleep" /\ futures[t].op = op

(* C31: within an invocation of a retried operation a backoff wait comes    *)
(* only between a failed retryable attempt and the next attempt: before     *)
(* the first attempt there is none, an invocation that ended at attempt 1   *)
(* never waited, one that reached attempt k waited k - 1 times, and an      *)
(* exhausted invocation does not wait after its last attempt.               *)
C31_WaitsOnlyBetweenAttempts ==
    \A t \in DOMAIN futures : \A op \in Operations :
       LET c == Call(t, op) IN
       /\ c.attempts = 0 => (c.sleeps = 0 /\ ~Waiting(t, op))
       /\ c.attempts > 0 => c.sleeps = c.attempts - 1
       /\ Waiting(t, op) =>
            /\ c.transient = c.attempts
            /\ c.attempts < CONTENT_REPLAY_RETRIES
            /\ c.how = "" /\ ~c.reported
            /\ futures[t].attempt = c.attempts + 1
       /\ c.how # "" =>
            /\ ~Waiting(t, op)
            /\ c.sleeps = IF c.reported THEN c.transient - 1 ELSE c.transient
            /\ c.attempts = 1 => c.sleeps = 0
       /\ c.reported =>
            /\ c.attempts = CONTENT_REPLAY_RETRIES
            /\ c.sleeps = CONTENT_REPLAY_RETRIES - 1

C31_Witness ==
    /\ ReturnedNormally
    /\ \E t \in DOMAIN futures :
         /\ Call(t, "get_object").attempts = CONTENT_REPLAY_RETRIES - 1
         /\ Call(t, "get_object").sleeps = CONTENT_REPLAY_RETRIES - 2
         /\ Call(t, "get_object").notfound = 1
         /\ Call(t, "put_object").attempts = 0
    /\ \E u \in DOMAIN futures :
         /\ Call(u, "get_object").attempts = 1
         /\ Call(u, "get_object").sleeps = 0
         /\ futures[u].decision = "copied"

\* get_object of invocation t returned the object
Fetched(t) ==
    /\ Call(t, "get_object").how = "return"
    /\ Call(t, "get_object").value # None

(* C32: in an invocation the fetch precedes the store: put_object is        *)
(* attempted only after get_object returned the object, and with the bytes  *)
(* it returned; when get_object exhausted its attempts or met not-found,    *)
(* the invocation makes no destination add.                                 *)
C32_FetchPrecedesStore ==
    \A t \in DOMAIN futures :
       LET f == futures[t]
           get == Call(t, "get_object")
           put == Call(t, "put_object")
       IN /\ (put.attempts > 0 \/ AtAttempt(f, "put_object")) =>
               /\ Fetched(t)
               /\ StorageSucceeded(get)
               /\ f.fetched = get.value
               /\ f.fetched = Some(src[f.obj.sha1])
               /\ ~AtAttempt(f, "get_object")
          /\ (get.reported \/ get.notfound > 0 \/ get.how = "raise") =>
               /\ ~Fetched(t)
               /\ put.attempts = 0
               /\ ~AtAttempt(f, "put_object")
               /\ f.fetched = None
          /\ AtAttempt(f, "get_object") => put.attempts = 0
          /\ (\A u \in InvocationsOn(f.obj.sha1) : ~Fetched(u)) =>
               (f.obj.sha1 \in DOMAIN dst <=> f.obj.sha1 \in DOMAIN dst0)

C32_Witness ==
    /\ ReturnedNormally
    /\ \E t \in DOMAIN futures :
         /\ Call(t, "get_object").reported
         /\ Call(t, "put_object").attempts = 0
         /\ futures[t].obj.sha1 \notin DOMAIN dst
    /\ \E u \in DOMAIN futures :
         /\ Call(u, "get_object").notfound = 1
         /\ Call(u, "put_object").attempts = 0
         /\ futures[u].obj.sha1 \notin DOMAIN dst

\* the record is visible and not excluded
Eligible(obj) == obj.status = "visible" /\ ~Excluded(obj)

\* the invocations whose call of op returned
ReturnedFrom(op) == {t \in DOMAIN futures : Call(t, op).how = "return"}

\* 1 if P, else 0
Count(P) == IF P THEN 1 ELSE 0

(* C33 as claimed: in a batch with no storage failure every storage         *)
(* operation performed increments the retry metric once with attempt 1;     *)
(* the existence check is performed exactly for the visible, non-excluded   *)
(* records, and fetch and store exactly for those that are in addition      *)
(* absent from the destination (for a hash the batch holds once: absent     *)
(* when the batch began).                                                   *)
C33_OperationsOfAFailureFreeBatch ==
    (ReturnedNormally /\ NoStorageFailure) =>
       /\ \A op \in Operations :
            /\ retry_metric[<<op, 1>>] =
                  Cardinality({t \in DOMAIN futures : Call(t, op).attempts = 1})
            /\ \A a \in 2..CONTENT_REPLAY_RETRIES : retry_metric[<<op, a>>] = 0
       /\ \A t \in DOMAIN futures :
            LET obj == futures[t].obj IN
            /\ Call(t, "obj_in_objstorage").attempts = Count(Eligible(obj))
            /\ Cardinality(InvocationsOn(obj.sha1)) = 1 =>
                 /\ Call(t, "get_object").attempts =
                       Count(Eligible(obj) /\ obj.sha1 \notin DOMAIN dst0)
                 /\ Call(t, "put_object").attempts =
                       Count(Eligible(obj) /\ obj.sha1 \notin DOMAIN dst0)

(* C33 as amended: in a batch with no storage failure every storage         *)
(* operation that returns increments the retry metric once with attempt 1   *)
(* and a fetch that meets not-found increments nothing; with check_dst the  *)
(* existence check is made exactly for the visible, non-excluded records    *)
(* and the fetch exactly for those it found absent from the destination;    *)
(* without check_dst no existence check is made and the fetch is made for   *)
(* every visible, non-excluded record; the store is made exactly for the    *)
(* records whose fetch returned the object; hidden and excluded records     *)
(* make no storage call.                                                    *)
C33_OperationsByCheckDst ==
    (ReturnedNormally /\ NoStorageFailure) =>
       /\ \A op \in Operations :
            /\ retry_metric[<<op, 1>>] = Cardinality(ReturnedFrom(op))
            /\ \A a \in 2..CONTENT_REPLAY_RETRIES : retry_metric[<<op, a>>] = 0
       /\ \A t \in DOMAIN futures :
            LET obj == futures[t].obj
                check == Call(t, "obj_in_objstorage")
                get == Call(t, "get_object")
                put == Call(t, "put_object")
            IN /\ check.attempts = Count(check_dst /\ Eligible(obj))
               /\ get.attempts =
                     Count(Eligible(obj)
                           /\ (check_dst => check.value = Some(FALSE)))
               /\ put.attempts = Count(get.attempts = 1 /\ obj.sha1 \in DOMAIN src)
               /\ (check.attempts = 1 /\ Cardinality(InvocationsOn(obj.sha1)) = 1) =>
                    (check.value = Some(FALSE) <=> obj.sha1 \notin DOMAIN dst0)
               /\ get.attempts = 1 =>
                    (get.how = "return" <=> obj.sha1 \in DOMAIN src)
               /\ ~Eligible(obj) => NoStorageCall(t)

C33_Witness ==
    /\ ReturnedNormally /\ NoStorageFailure
    /\ ~check_dst
    /\ retry_metric[<<"obj_in_objstorage", 1>>] = 0
    /\ retry_metric[<<"get_object", 1>>] = 1
    /\ retry_metric[<<"put_object", 1>>] = 1
    /\ \E t \in DOMAIN futures :
         /\ futures[t].obj.sha1 \in DOMAIN dst0
         /\ Call(t, "put_object").attempts = 1
    /\ \E u \in DOMAIN futures :
         /\ Call(u, "get_object").notfound = 1
         /\ Call(u, "put_object").attempts = 0

\* the error_context of an exhausted operation op on hash h
TerminalReport(op, h) ==
    [obj_id |-> hash_to_hex(h), operation |-> op, exc |-> failure_exc,
     retries |-> CONTENT_REPLAY_RETRIES]

(* C34: every terminal-failure report, in the error log and in the          *)
(* reporter, names the operation that failed (obj_in_objstorage,            *)
(* get_object or put_object), carries the hex hash of the object the        *)
(* operation was invoked on and an attempt count equal to                   *)
(* CONTENT_REPLAY_RETRIES; every exhausted operation has such a report.     *)
C34_ReportsCarryTheContext ==
    /\ \A e \in error_log :
         /\ e.operation \in Operations
         /\ e.retries = CONTENT_REPLAY_RETRIES
         /\ \E t \in DOMAIN futures :
              /\ Call(t, e.operation).reported
              /\ e = TerminalReport(e.operation, futures[t].obj.sha1)
    /\ \A t \in DOMAIN futures : \A op \in Operations :
         Call(t, op).reported =>
            /\ TerminalReport(op, futures[t].obj.sha1) \in error_log
            /\ REPORTER # None =>
                 ReportKey(hash_to_hex(futures[t].obj.sha1)) \in DOMAIN reporter_db
    /\ \A k \in DOMAIN reporter_db :
         /\ REPORTER # None
         /\ reporter_db[k] \in error_log
         /\ k = ReportKey(reporter_db[k].obj_id)

C34_Witness ==
    /\ ReturnedNormally /\ REPORTER # None
    /\ error_log = {TerminalReport("obj_in_objstorage", Hash(2))}
    /\ DOMAIN reporter_db = {ReportKey(hash_to_hex(Hash(2)))}
    /\ reporter_db[ReportKey(hash_to_hex(Hash(2)))].operation = "obj_in_objstorage"
    /\ \E t \in DOMAIN futures :
         /\ futures[t].obj.sha1 = Hash(2)
         /\ Call(t, "obj_in_objstorage").reported
         /\ futures[t].decision = "copied"

\* the storage calls of the invocation that raised
FailedAttempts(c) == c.transient + c.notfound

(* C35: the not-found short-circuit applies to get_object only. A           *)
(* not-found raised by the destination's add or existence check is wrapped  *)
(* and retried as any other failure: the operation waits and attempts       *)
(* again, ends by returning, reports once CONTENT_REPLAY_RETRIES attempts   *)
(* failed, and never makes the invocation raise or decide not_in_src. An    *)
(* exception of get other than not-found is retried the same way, while a   *)
(* not-found of get ends it at once, unreported.                            *)
C35_NotFoundShortCircuitsGetOnly ==
    \A t \in DOMAIN futures :
       LET f == futures[t]
           get == Call(t, "get_object")
       IN /\ \A op \in {"obj_in_objstorage", "put_object"} :
               LET c == Call(t, op) IN
               /\ c.how # "raise" /\ c.exc = ""
               /\ (c.attempts > 0 /\ FailedAttempts(c) = c.attempts
                     /\ c.attempts < CONTENT_REPLAY_RETRIES) => Waiting(t, op)
               /\ c.reported <=> FailedAttempts(c) = CONTENT_REPLAY_RETRIES
               /\ FailedAttempts(c) <= CONTENT_REPLAY_RETRIES
               /\ (c.how = "return" /\ ~c.reported) =>
                    c.attempts = FailedAttempts(c) + 1
          /\ get.notfound <= 1
          /\ get.notfound = 1 =>
               /\ get.how = "raise" /\ get.exc = "ObjNotFoundError"
               /\ get.attempts = get.transient + 1
               /\ ~get.reported /\ ~Waiting(t, "get_object")
               /\ f.reason = "not_in_src"
          /\ (get.attempts > 0 /\ get.transient = get.attempts
                /\ get.attempts < CONTENT_REPLAY_RETRIES) => Waiting(t, "get_object")
          /\ get.reported <=> get.transient = CONTENT_REPLAY_RETRIES
          /\ f.reason = "not_in_src" => get.notfound = 1
          /\ f.exc = ""

C35_Witness ==
    /\ ReturnedNormally
    /\ failure_exc = "ObjNotFoundError"
    /\ \E t \in DOMAIN futures :
         /\ Call(t, "obj_in_objstorage").notfound = 1
         /\ Call(t, "obj_in_objstorage").value = Some(FALSE)
         /\ Call(t, "put_object").notfound = CONTENT_REPLAY_RETRIES - 1
         /\ Call(t, "put_object").attempts = CONTENT_REPLAY_RETRIES
         /\ futures[t].decision = "copied"
         /\ HoldsSourceBytes(futures[t].obj.sha1)

(* C36: when obj_in_objstorage exhausts its attempts it returns None and    *)
(* _copy_object goes on as if the object were absent: it is not skipped or  *)
(* counted failed at that step, get_object is called, and an object the     *)
(* source holds is copied, also when the destination held it; with a        *)
(* reporter the hash is recorded for obj_in_objstorage all the same.        *)
C36_ExhaustedCheckCountsAsAbsent ==
    \A t \in DOMAIN futures :
       LET f == futures[t]
           h == f.obj.sha1
           key == ReportKey(hash_to_hex(h))
       IN Call(t, "obj_in_objstorage").reported =>
            /\ Call(t, "obj_in_objstorage").how = "return"
            /\ Call(t, "obj_in_objstorage").value = None
            /\ f.reason \notin {"in_dst", "skipped", "excluded"}
            /\ f.exc = ""
            /\ Call(t, "get_object").attempts > 0 \/ AtAttempt(f, "get_object")
            /\ Done(t) =>
                 /\ f.decision = IF h \in DOMAIN src THEN "copied" ELSE "not_in_src"
                 /\ (h \in DOMAIN src /\ ~Call(t, "get_object").reported
                       /\ ~Call(t, "put_object").reported) => HoldsSourceBytes(h)
            /\ TerminalReport("obj_in_objstorage", h) \in error_log
            /\ REPORTER # None =>
                 /\ key \in DOMAIN reporter_db
                 /\ (\A u \in InvocationsOn(h) :
                        /\ ~Call(u, "get_object").reported
                        /\ ~Call(u, "put_object").reported)
                      => reporter_db[key] = TerminalReport("obj_in_objstorage", h)

C36_Witness ==
    /\ ReturnedNormally /\ REPORTER # None
    /\ \E t \in DOMAIN futures :
         /\ Call(t, "obj_in_objstorage").reported
         /\ futures[t].obj.sha1 \in DOMAIN dst0
         /\ Call(t, "put_object").attempts = 1
         /\ futures[t].decision = "copied"
         /\ ReportKey(hash_to_hex(futures[t].obj.sha1)) \in DOMAIN reporter_db
    /\ Len(vol) = 1

\* the call is the one C37 is about: a hash of hash_size bytes looked up in
\* the whole of a sorted array
WholeArrayLookup ==
    /\ lookup.pc = "done"
    /\ Len(lookup.hash_) = SHA1_SIZE
    /\ lookup.nb_hashes = Len(lookup.haystack)

Occurs(h, hashes) == \E i \in DOMAIN hashes : hashes[i] = h

(* C37: for every sorted sequence S of hashes, repeated or not, and every   *)
(* hash h of that width, is_hash_in_bytearray(h, S, |S|) returns True iff   *)
(* h occurs in S; the search loop ends after at most |S| iterations and     *)
(* every position it probes is in [0, |S|); the read that follows a loop    *)
(* without a match is at a position of S too, or at 0 when S is empty.      *)
C37_DuplicatesAreHarmless ==
    WholeArrayLookup =>
       /\ lookup.result = Returned(Some(Occurs(lookup.hash_, lookup.haystack)))
       /\ Len(lookup.probes) <= Len(lookup.haystack)
       /\ \A i \in DOMAIN lookup.probes :
            0 <= lookup.probes[i] /\ lookup.probes[i] < Len(lookup.haystack)
       /\ lookup.last_read = None =>
            (lookup.probes # <<>> /\ lookup.result.value = Some(TRUE))
       /\ lookup.last_read # None =>
            /\ 0 <= lookup.last_read[1]
            /\ lookup.haystack # <<>> => lookup.last_read[1] < Len(lookup.haystack)
            /\ lookup.haystack = <<>> => lookup.last_read[1] = 0

C37_Witness ==
    /\ WholeArrayLookup
    /\ Len(lookup.haystack) = MaxHaystack
    /\ lookup.haystack[1] = lookup.haystack[2]
    /\ lookup.hash_ = lookup.haystack[MaxHaystack]
    /\ lookup.hash_ # lookup.haystack[1]
    /\ lookup.result.value = Some(TRUE)
    /\ lookup.probes = <<1, 2>>
    /\ lookup.last_read = None

\* the step is an attempt of put_object by invocation t
PutAttemptBy(t) ==
    /\ t \in DOMAIN futures
    /\ t \in DOMAIN futures'
    /\ futures'[t].calls["put_object"].attempts =
         futures[t].calls["put_object"].attempts + 1

(* C38: no step of a batch changes the source, whose only call is get; the  *)
(* destination changes only by an add of put_object, which adds the hash    *)
(* of its record with the source's bytes: no object is removed from the     *)
(* destination and the bytes of an object already there stay the same.      *)
C38_SourceIsOnlyRead ==
    [][ /\ src' = src
        /\ \A h \in DOMAIN dst : h \in DOMAIN dst' /\ dst'[h] = dst[h]
        /\ dst' # dst =>
             \E t \in DOMAIN futures :
                /\ PutAttemptBy(t)
                /\ DOMAIN dst' = DOMAIN dst \cup {futures[t].obj.sha1}
                /\ dst'[futures[t].obj.sha1] = src[futures[t].obj.sha1]
        /\ (\A t \in DOMAIN futures : ~PutAttemptBy(t)) => dst' = dst
      ]_vars

C38_Witness ==
    /\ ReturnedNormally
    /\ ~check_dst
    /\ dst0 # StoreOf({})
    /\ dst # dst0
    /\ \A h \in DOMAIN dst0 : h \in DOMAIN dst /\ dst[h] = dst0[h]
    /\ \E t \in DOMAIN futures :
         /\ futures[t].obj.sha1 \in DOMAIN dst0
         /\ Call(t, "put_object").attempts > 1
         /\ StorageSucceeded(Call(t, "put_object"))

====
